---- MODULE Spec2Model ----
(***************************************************************************)
(* Model of the test-case evaluation engine (zidonghuaceping/evaluation):  *)
(* the structure, quality, coverage, similarity and uniqueness metrics and *)
(* the Evaluator that aggregates them.                                     *)
(*                                                                         *)
(* Text is a sequence of characters.  An ASCII character is the string of  *)
(* length one that holds it; a character outside ASCII is written by its   *)
(* code point, "u6807" for U+6807.  Scores are exact rationals <<n, d>>.   *)
(***************************************************************************)
EXTENDS Integers, Sequences, FiniteSets, TLC

VARIABLES
    similarity_loaded,  \* Evaluator.similarity_metric is not None
    hash_order,         \* iteration order of Python sets of str in this process
    call,               \* the operation last called, with its arguments
    ret                 \* what that call returned (or that it raised)

vars == <<similarity_loaded, hash_order, call, ret>>

-----------------------------------------------------------------------------
(* Rationals: <<n, d>> with d > 0 and gcd(n, d) = 1.                       *)

Abs(n) == IF n < 0 THEN -n ELSE n

RECURSIVE GCD(_, _)
GCD(a, b) == IF b = 0 THEN a ELSE GCD(b, a % b)

Rat(n, d) ==
    LET g == GCD(Abs(n), Abs(d))
        s == IF d < 0 THEN -1 ELSE 1
    IN  <<(s * n) \div g, (s * d) \div g>>

RZero == <<0, 1>>
ROne == <<1, 1>>
Num(a) == Head(a)
Den(a) == Head(Tail(a))
RAdd(a, b) == Rat(Num(a) * Den(b) + Num(b) * Den(a), Den(a) * Den(b))
RSub(a, b) == Rat(Num(a) * Den(b) - Num(b) * Den(a), Den(a) * Den(b))
RMul(a, b) == Rat(Num(a) * Num(b), Den(a) * Den(b))
RDiv(a, b) == Rat(Num(a) * Den(b), Den(a) * Num(b))
RLe(a, b) == Num(a) * Den(b) <= Num(b) * Den(a)
RLt(a, b) == Num(a) * Den(b) < Num(b) * Den(a)
RMax(a, b) == IF RLe(a, b) THEN b ELSE a
RMin(a, b) == IF RLe(a, b) THEN a ELSE b
RInt(n) == <<n, 1>>
InUnit(a) == RLe(RZero, a) /\ RLe(a, ROne)

RECURSIVE RSum(_)
RSum(s) == IF s = <<>> THEN RZero ELSE RAdd(s[1], RSum(Tail(s)))

-----------------------------------------------------------------------------
(* Characters and the str methods the code uses.                           *)

Min(S) == CHOOSE x \in S : \A y \in S : x <= y
Max(S) == CHOOSE x \in S : \A y \in S : x >= y

WS == {" ", "\t", "\n"}
Digits == {"0", "1", "2", "3", "4", "5", "6", "7", "8", "9"}
UpperCase == {"A", "B", "C", "D", "E", "F", "G", "H", "I", "J", "K", "L", "M",
              "N", "O", "P", "Q", "R", "S", "T", "U", "V", "W", "X", "Y", "Z"}
LowerCase == {"a", "b", "c", "d", "e", "f", "g", "h", "i", "j", "k", "l", "m",
              "n", "o", "p", "q", "r", "s", "t", "u", "v", "w", "x", "y", "z"}
LowerOf ==
    [c \in UpperCase |->
        CASE c = "A" -> "a" [] c = "B" -> "b" [] c = "C" -> "c" [] c = "D" -> "d"
          [] c = "E" -> "e" [] c = "F" -> "f" [] c = "G" -> "g" [] c = "H" -> "h"
          [] c = "I" -> "i" [] c = "J" -> "j" [] c = "K" -> "k" [] c = "L" -> "l"
          [] c = "M" -> "m" [] c = "N" -> "n" [] c = "O" -> "o" [] c = "P" -> "p"
          [] c = "Q" -> "q" [] c = "R" -> "r" [] c = "S" -> "s" [] c = "T" -> "t"
          [] c = "U" -> "u" [] c = "V" -> "v" [] c = "W" -> "w" [] c = "X" -> "x"
          [] c = "Y" -> "y" [] c = "Z" -> "z"]

\* Characters outside ASCII that are not in U+4E00..U+9FA5 (punctuation).
\* u3002 ideographic full stop, uff01 !, uff1f ?, uff0c comma, u3001 enumeration
\* comma, uff1b ;, uff1a :, uff08 (, uff09 ), u3010 [, u3011 ], u2022 bullet,
\* uff0e fullwidth full stop.
WidePunct == {"u3002", "uff01", "uff1f", "uff0c", "u3001", "uff1b", "uff1a",
              "uff08", "uff09", "u3010", "u3011", "u2022", "uff0e"}

IsAscii(c) == Len(c) = 1
IsCJK(c) == Len(c) > 1 /\ c \notin WidePunct          \* [一-龥]
IsSpace(c) == c \in WS                                 \* \s
IsDigit(c) == c \in Digits                             \* \d
IsWordChar(c) ==                                       \* \w
    c \in Digits \cup UpperCase \cup LowerCase \cup {"_"} \/ IsCJK(c)
IsTokenChar(c) ==                                      \* [A-Za-z0-9_@#\+\-]
    c \in Digits \cup UpperCase \cup LowerCase \cup {"_", "@", "#", "+", "-"}

lower_char(c) == IF c \in UpperCase THEN LowerOf[c] ELSE c
lower(t) == [i \in 1..Len(t) |-> lower_char(t[i])]
isascii(t) == \A i \in 1..Len(t) : IsAscii(t[i])

Sub(t, i, j) == IF j < i THEN <<>> ELSE SubSeq(t, i, j)

NonSpace(t) == {i \in 1..Len(t) : ~IsSpace(t[i])}
strip(t) ==
    IF NonSpace(t) = {} THEN <<>> ELSE Sub(t, Min(NonSpace(t)), Max(NonSpace(t)))

\* p in t
Contains(t, p) ==
    \E i \in 1..(Len(t) - Len(p) + 1) : Sub(t, i, i + Len(p) - 1) = p
ContainsAny(t, ps) == \E p \in ps : Contains(t, p)
\* sum(1 for p in ps if p in t), ps without repeats
CountIn(t, ps) == Cardinality({p \in ps : Contains(t, p)})

\* str.split(c): the pieces between the occurrences of c
split(t, c) ==
    LET P == {i \in 1..Len(t) : t[i] = c}
        n == Cardinality(P)
        Kth(k) == CHOOSE i \in P : Cardinality({j \in P : j <= i}) = k
        first(k) == IF k = 1 THEN 1 ELSE Kth(k - 1) + 1
        last(k) == IF k = n + 1 THEN Len(t) ELSE Kth(k) - 1
    IN  [k \in 1..(n + 1) |-> Sub(t, first(k), last(k))]

\* str.splitlines(): no empty last line after a final line break
splitlines(t) ==
    LET s == split(t, "\n")
    IN  IF Len(t) = 0 THEN <<>>
        ELSE IF t[Len(t)] = "\n" THEN Sub(s, 1, Len(s) - 1)
        ELSE s

\* "\n".join(lines)
RECURSIVE join(_)
join(lines) ==
    IF lines = <<>> THEN <<>>
    ELSE IF Len(lines) = 1 THEN lines[1]
    ELSE lines[1] \o <<"\n">> \o join(Tail(lines))

\* The maximal runs of the characters at the positions K, K the positions of
\* the characters of some class C: re.findall(r"[C]+", t) as a set
Runs(t, K) ==
    {Sub(t, i, Min({j \in i..Len(t) : j \in K /\ j + 1 \notin K})) :
        i \in {k \in K : k - 1 \notin K}}

\* The elements of a sequence
Range(s) == {s[i] : i \in 1..Len(s)}

-----------------------------------------------------------------------------
(* CoverageMetric (metrics/coverage_metric.py)                             *)

SECTION_TITLES ==
    <<<<"u4e1a", "u52a1", "u89c4", "u5219">>, <<"u529f", "u80fd", "u89c4", "u5219">>,
     <<"u529f", "u80fd", "u9700", "u6c42">>, <<"u9700", "u6c42", "u5217", "u8868">>,
     <<"u9700", "u6c42", "u70b9">>, <<"u89c4", "u5219">>,
     <<"u4e1a", "u52a1", "u7ea6", "u675f">>, <<"u9a8c", "u6536", "u6807", "u51c6">>>>

\* BULLET_PATTERNS: the characters that open or close a list item
BulletMarks == {"-", "*", "u2022"}
NumberSeparators == {".", "|", "u3001", ")"}
OpenParens == {"uff08", "("}
CloseParens == {"uff09", ")"}

\* SENTENCE_PATTERNS: the two characters a match starts with, and the
\* punctuation it ends at
SentenceHeads ==
    <<[first |-> {"u5e94", "u9700", "u5fc5"}, second |-> "u8be5"],
      [first |-> {"u5e94", "u9700", "u5fc5"}, second |-> "u8981"],
      [first |-> {"u7528"}, second |-> "u6237"],
      [first |-> {"u7cfb"}, second |-> "u7edf"]>>
SentenceEnds == {"u3002", "uff01", "uff1f"}

SYNONYMS ==
    {<<<<"u767b", "u9646">>, <<"u767b", "u5f55">>>>,
     <<<<"u767b", "u5165">>, <<"u767b", "u5f55">>>>,
     <<<<"l", "o", "g">>, <<"u767b", "u5f55">>>>,
     <<<<"l", "o", "g", "i", "n">>, <<"u767b", "u5f55">>>>,
     <<<<"l", "o", "g", "o", "n">>, <<"u767b", "u5f55">>>>,
     <<<<"u7528", "u6237", "u540d">>, <<"u8d26", "u53f7">>>>,
     <<<<"u8d26", "u6237">>, <<"u8d26", "u53f7">>>>,
     <<<<"u", "s", "e", "r">>, <<"u8d26", "u53f7">>>>,
     <<<<"a", "c", "c", "o", "u", "n", "t">>, <<"u8d26", "u53f7">>>>,
     <<<<"u53e3", "u4ee4">>, <<"u5bc6", "u7801">>>>,
     <<<<"p", "a", "s", "s">>, <<"u5bc6", "u7801">>>>,
     <<<<"p", "a", "s", "s", "w", "o", "r", "d">>, <<"u5bc6", "u7801">>>>,
     <<<<"u56fe", "u5f62", "u9a8c", "u8bc1", "u7801">>, <<"u9a8c", "u8bc1", "u7801">>>>,
     <<<<"c", "a", "p", "t", "c", "h", "a">>, <<"u9a8c", "u8bc1", "u7801">>>>,
     <<<<"u7cfb", "u7edf", "u9996", "u9875">>, <<"u9996", "u9875">>>>,
     <<<<"u4e3b", "u9875">>, <<"u9996", "u9875">>>>,
     <<<<"u4e3b", "u9875", "u9762">>, <<"u9996", "u9875">>>>,
     <<<<"h", "o", "m", "e">>, <<"u9996", "u9875">>>>,
     <<<<"u91cd", "u5b9a", "u5411">>, <<"u8df3", "u8f6c">>>>,
     <<<<"r", "e", "d", "i", "r", "e", "c", "t">>, <<"u8df3", "u8f6c">>>>,
     <<<<"u901a", "u8fc7">>, <<"u6210", "u529f">>>>,
     <<<<"u5931", "u8d25">>, <<"u9519", "u8bef">>>>,
     <<<<"u586b", "u5199">>, <<"u8f93", "u5165">>>>,
     <<<<"u767b", "u5f55", "u9875", "u9762">>, <<"u767b", "u5f55", "u9875">>>>,
     <<<<"u767b", "u9646", "u9875", "u9762">>, <<"u767b", "u5f55", "u9875">>>>,
     <<<<"u767b", "u9646", "u9875">>, <<"u767b", "u5f55", "u9875">>>>}

STOPWORDS_REQ ==
    {<<"u4e86">>, <<"u4ee5", "u4fbf">>, <<"u4ee5", "u53ca">>, <<"u4fdd", "u8bc1">>,
     <<"u5219">>, <<"u529f", "u80fd">>, <<"u53ef", "u4ee5">>, <<"u548c">>, <<"u5728">>,
     <<"u5982", "u679c">>, <<"u5b9e", "u73b0">>, <<"u5bf9", "u4e8e">>,
     <<"u5e76", "u4e14">>, <<"u5e94", "u8be5">>, <<"u5f53">>, <<"u5fc5", "u987b">>,
     <<"u63d0", "u4f9b">>, <<"u64cd", "u4f5c">>, <<"u652f", "u6301">>, <<"u662f">>,
     <<"u6709">>, <<"u7528">>, <<"u7528", "u6237">>, <<"u754c", "u9762">>, <<"u7684">>,
     <<"u76f8", "u5173">>, <<"u786e", "u4fdd">>, <<"u7cfb", "u7edf">>,
     <<"u80fd", "u591f">>, <<"u8fdb", "u884c">>, <<"u9488", "u5bf9">>,
     <<"u9700", "u8981">>, <<"u9875", "u9762">>}

STOPWORDS_CASE_EXTRA ==
    {<<"u70b9", "u51fb">>, <<"u8f93", "u5165">>, <<"u6253", "u5f00">>,
     <<"u7136", "u540e">>, <<"u5e76", "u4e14">>, <<"u4ee5", "u53ca">>,
     <<"u786e", "u8ba4">>, <<"u63d0", "u4ea4">>, <<"u67e5", "u770b">>}

STOPWORDS_CASE == STOPWORDS_REQ \cup STOPWORDS_CASE_EXTRA

\* COVERAGE_CONFIG["requirement_overlap_threshold"]
requirement_overlap_threshold == Rat(3, 10)

\* re.sub(r"[。．.\s]+$", "", line.strip())
_normalize_line(line) ==
    LET Cut(s, keep) == IF keep = {} THEN <<>> ELSE Sub(s, 1, Max(keep))
        Trim(s) == Cut(s, {i \in 1..Len(s) : s[i] \notin {"u3002", "uff0e", "."} \cup WS})
    IN  Trim(strip(line))

\* The elements of s at the indices K, in increasing order of index
SubseqAt(s, K) ==
    [r \in 1..Cardinality(K) |->
        s[CHOOSE i \in K : Cardinality({j \in K : j <= i}) = r]]

\* The 2-grams and 3-grams of an ideographic span, at most MaxGrams of them:
\* list(grams)[:15] of a Python set, whose iteration order the process decides.
MaxGrams == 15
GramsOf(span, order) ==
    LET L == Len(span)
        \* n stands for the 2-gram at n (n <= L) or the 3-gram at n - L, which
        \* is the order of the two loops
        gram(n) == IF n <= L THEN Sub(span, n, n + 1) ELSE Sub(span, n - L, n - L + 2)
        at == {n \in 1..(2 * L) : IF n <= L THEN n + 1 <= L ELSE n - L + 2 <= L}
        Ranked(first) ==
            IF order = "insertion"
            THEN {n \in first : Cardinality({m \in first : m < n}) < MaxGrams}
            ELSE {n \in first : Cardinality({m \in first : m > n}) < MaxGrams}
        Grams(kept) == {gram(n) : n \in kept}
    IN  Grams(Ranked({n \in at : \A m \in at : m < n => gram(m) # gram(n)}))

\* set(self._split_tokens(text))
_split_tokens(text, order) ==
    LET Tokens(ascii, cjk) ==
            {lower(s) : s \in ascii}
            \cup {s \in cjk : Len(s) <= 3}
            \cup UNION {GramsOf(s, order) : s \in {r \in cjk : Len(r) > 3}}
    IN  Tokens(Runs(text, {i \in 1..Len(text) : IsTokenChar(text[i])}),
               Runs(text, {i \in 1..Len(text) : IsCJK(text[i])}))

TokenKey(t) == IF isascii(t) THEN lower(t) ELSE t

Synonym(key) ==
    IF \E p \in SYNONYMS : p[1] = key
    THEN (CHOOSE p \in SYNONYMS : p[1] = key)[2]
    ELSE key

_normalize_tokens(tokens) == {Synonym(TokenKey(t)) : t \in tokens}

extract_keywords_from_requirement(requirement, order) ==
    _normalize_tokens(
        {t \in _split_tokens(requirement, order) :
            Len(t) > 1 /\ TokenKey(t) \notin STOPWORDS_REQ})

extract_keywords_from_test_case(test_case, order) ==
    _normalize_tokens(
        {t \in _split_tokens(test_case, order) :
            Len(t) > 1 /\ TokenKey(t) \notin STOPWORDS_CASE})

\* The number of "#" a line starts with
LeadingHashes(line) ==
    Min({i \in 0..Len(line) : i = Len(line) \/ line[i + 1] # "#"})

\* heading_regex ^(#{1,6})\s*(.+?)\s*$ on a stripped line: the length of the
\* group of "#", 0 when the line is no heading.  The title takes at least one
\* character, which is a "#" when nothing else is left for it.
HeadingLevel(line) ==
    LET h == LeadingHashes(line)
    IN  IF h = 0 THEN 0
        ELSE IF Len(line) > h THEN (IF h > 6 THEN 6 ELSE h)
        ELSE IF h = 1 THEN 0
        ELSE (IF h - 1 > 6 THEN 6 ELSE h - 1)

\* title_regexes ^\s*#{1,6}\s*TITLE\s*$ on a stripped line
IsSectionTitle(line, titles) ==
    LET h == LeadingHashes(line)
    IN  /\ h \in 1..6
        /\ \E k \in 1..Len(titles) : strip(Sub(line, h + 1, Len(line))) = titles[k]

_extract_section_text(prd_text, section_titles) ==
    LET Section(lines) ==
            LET Upto(at, stops) ==
                    join(Sub(lines, at + 1,
                             IF stops = {} THEN Len(lines) ELSE Min(stops) - 1))
                Body(at, section_level) ==
                    Upto(at, {j \in (at + 1)..Len(lines) :
                                 HeadingLevel(strip(lines[j])) \in 1..section_level})
                From(hits) ==
                    IF hits = {} THEN <<>>
                    ELSE Body(Min(hits), HeadingLevel(strip(lines[Min(hits)])))
            IN  From({i \in 1..Len(lines) :
                         IsSectionTitle(strip(lines[i]), section_titles)})
    IN  Section(splitlines(prd_text))

lstrip(t) == IF NonSpace(t) = {} THEN <<>> ELSE Sub(t, Min(NonSpace(t)), Len(t))

\* The number of digits a text starts with
LeadingDigits(t) ==
    Min({i \in 0..Len(t) : i = Len(t) \/ ~IsDigit(t[i + 1])})

\* The first of BULLET_PATTERNS that matches a stripped line: whether one does,
\* and its group (.+)
BulletMatch(line) ==
    LET n == Len(line)
        paren == IF n > 0 /\ line[1] \in OpenParens THEN 1 ELSE 0
        \* where the group starts, 0 when no pattern matches
        GroupAt(d, pd) ==
            IF n >= 3 /\ line[1] \in BulletMarks /\ IsSpace(line[2])
            THEN 3
            ELSE IF d >= 1 /\ n >= d + 2 /\ line[d + 1] \in NumberSeparators
            THEN d + 2
            ELSE IF pd >= 1 /\ n >= paren + pd + 2
                    /\ line[paren + pd + 1] \in CloseParens
            THEN paren + pd + 2
            ELSE 0
        Match(from) ==
            IF from = 0 THEN [matched |-> FALSE, group |-> <<>>]
            ELSE [matched |-> TRUE, group |-> lstrip(Sub(line, from, n))]
    IN  Match(GroupAt(LeadingDigits(line), LeadingDigits(Sub(line, paren + 1, n))))

_extract_bullets(section_text) ==
    LET Keep(m, item) ==
            SubseqAt(item, {i \in 1..Len(item) : m[i].matched /\ item[i] # <<>>})
        Items(m) == Keep(m, [i \in 1..Len(m) |-> _normalize_line(m[i].group)])
        Matches(lines) == Items([i \in 1..Len(lines) |-> BulletMatch(strip(lines[i]))])
    IN  Matches(splitlines(section_text))

\* re.findall of one of SENTENCE_PATTERNS, from position `from` on
RECURSIVE FindSentences(_, _, _)
FindSentences(text, from, head) ==
    LET ends == {j \in 1..Len(text) : text[j] \in SentenceEnds}
        Match(i, j) == <<Sub(text, i, j)>> \o FindSentences(text, j + 1, head)
        First(starts) ==
            IF starts = {} THEN <<>>
            ELSE Match(Min(starts), Min({e \in ends : e >= Min(starts) + 2}))
    IN  First({i \in from..(Len(text) - 2) :
                  /\ text[i] \in head.first
                  /\ text[i + 1] = head.second
                  /\ \E j \in ends : j >= i + 2})

_extract_sentence_requirements(prd_text) ==
    LET Keep(reqs) == SubseqAt(reqs, {i \in 1..Len(reqs) : reqs[i] # <<>>})
        Normalized(found) == Keep([i \in 1..Len(found) |-> _normalize_line(found[i])])
    IN  Normalized(FindSentences(prd_text, 1, SentenceHeads[1])
                   \o FindSentences(prd_text, 1, SentenceHeads[2])
                   \o FindSentences(prd_text, 1, SentenceHeads[3])
                   \o FindSentences(prd_text, 1, SentenceHeads[4]))

extract_requirements(prd_text) ==
    LET \* cleaned: the first occurrence of each normalized line of length >= 2
        Cleaned(rr) ==
            SubseqAt(rr, {i \in 1..Len(rr) :
                            Len(rr[i]) >= 2 /\ \A j \in 1..(i - 1) : rr[j] # rr[i]})
        Normalized(requirements) ==
            Cleaned([i \in 1..Len(requirements) |-> _normalize_line(requirements[i])])
        \* stage 3: the list items of the whole text when stages 1 and 2 found nothing
        Fallback(found) ==
            Normalized(IF found = <<>> THEN _extract_bullets(prd_text) ELSE found)
    IN  Fallback(_extract_bullets(_extract_section_text(prd_text, SECTION_TITLES))
                 \o _extract_sentence_requirements(prd_text))

\* A faulty score that leaves out the two containment ratios
MatchScore_jaccard_only(req_keywords, case_keywords) ==
    Rat(Cardinality(req_keywords \cap case_keywords),
        Cardinality(req_keywords \cup case_keywords))

\* A faulty score that leaves out the ratio to the case's keywords
MatchScore_without_case_ratio(req_keywords, case_keywords) ==
    LET inter_cnt == Cardinality(req_keywords \cap case_keywords)
    IN  RMax(Rat(inter_cnt, Cardinality(req_keywords \cup case_keywords)),
             Rat(inter_cnt, Cardinality(req_keywords)))

\* score = max(jaccard, req_ratio, case_ratio) of two non-empty keyword sets
\* that share a keyword
MatchScore(req_keywords, case_keywords) ==
    LET inter_cnt == Cardinality(req_keywords \cap case_keywords)
        jaccard == Rat(inter_cnt, Cardinality(req_keywords \cup case_keywords))
        req_ratio == Rat(inter_cnt, Cardinality(req_keywords))
        case_ratio == Rat(inter_cnt, Cardinality(case_keywords))
    IN  RMax(jaccard, RMax(req_ratio, case_ratio))

\* A faulty decision that takes a requirement without keywords as covered
IsCovered_without_keywords_is_covered(req, cases_keywords, similarity_threshold, order) ==
    LET Matches(req_keywords, case_keywords) ==
            /\ case_keywords # {}
            /\ req_keywords \cap case_keywords # {}
            /\ RLe(similarity_threshold, MatchScore(req_keywords, case_keywords))
        Covered(req_keywords) ==
            \/ req_keywords = {}
            \/ \E case_keywords \in cases_keywords : Matches(req_keywords, case_keywords)
    IN  Covered(extract_keywords_from_requirement(req, order))

\* is_covered of one requirement after the loop over the test cases, whose
\* keyword sets are cases_keywords
IsCovered(req, cases_keywords, similarity_threshold, order) ==
    LET Matches(req_keywords, case_keywords) ==
            /\ case_keywords # {}
            /\ req_keywords \cap case_keywords # {}
            /\ RLe(similarity_threshold, MatchScore(req_keywords, case_keywords))
        Covered(req_keywords) ==
            /\ req_keywords # {}
            /\ \E case_keywords \in cases_keywords : Matches(req_keywords, case_keywords)
    IN  Covered(extract_keywords_from_requirement(req, order))

\* The keyword sets of the test cases a requirement is compared with
CasesKeywords(test_cases, order) ==
    {extract_keywords_from_test_case(test_cases[idx], order) : idx \in 1..Len(test_cases)}

\* A faulty coverage that divides by the number of requirements with a guard
\* that yields 0 for an empty list
calculate_requirement_coverage_empty_is_zero(requirements, test_cases, th, order) ==
    LET n == Len(requirements)
        Covered(cases_keywords) ==
            {i \in 1..n : IsCovered(requirements[i], cases_keywords, th, order)}
        covered == Covered(CasesKeywords(test_cases, order))
    IN  [coverage_rate |-> IF n = 0 THEN RZero ELSE Rat(Cardinality(covered), n),
         covered_count |-> Cardinality(covered),
         uncovered_count |-> n - Cardinality(covered),
         total_requirements |-> n,
         covered_requirements |-> SubseqAt(requirements, covered),
         uncovered_requirements |-> SubseqAt(requirements, (1..n) \ covered),
         threshold_used |-> th]

\* A faulty coverage that passes over a requirement without keywords and
\* puts it in neither list
calculate_requirement_coverage_drops_unkeyed(requirements, test_cases, similarity_threshold, order) ==
    LET n == Len(requirements)
        keyed == {i \in 1..n :
                     extract_keywords_from_requirement(requirements[i], order) # {}}
        Result(covered_requirements, uncovered_requirements) ==
            [coverage_rate |-> Rat(Len(covered_requirements), n),
             covered_count |-> Len(covered_requirements),
             uncovered_count |-> Len(uncovered_requirements),
             total_requirements |-> n,
             covered_requirements |-> covered_requirements,
             uncovered_requirements |-> uncovered_requirements,
             threshold_used |-> similarity_threshold]
        Partition(covered) ==
            Result(SubseqAt(requirements, covered),
                   SubseqAt(requirements, keyed \ covered))
        Covered(cases_keywords) ==
            Partition({i \in 1..n :
                IsCovered(requirements[i], cases_keywords, similarity_threshold, order)})
    IN  IF n = 0
        THEN [coverage_rate |-> ROne, covered_count |-> 0, uncovered_count |-> 0,
              total_requirements |-> 0, covered_requirements |-> <<>>,
              uncovered_requirements |-> <<>>,
              threshold_used |-> similarity_threshold]
        ELSE Covered(CasesKeywords(test_cases, order))

calculate_requirement_coverage(requirements, test_cases, similarity_threshold, order) ==
    LET n == Len(requirements)
        Result(covered_requirements, uncovered_requirements) ==
            [coverage_rate |-> Rat(Len(covered_requirements), n),
             covered_count |-> Len(covered_requirements),
             uncovered_count |-> Len(uncovered_requirements),
             total_requirements |-> n,
             covered_requirements |-> covered_requirements,
             uncovered_requirements |-> uncovered_requirements,
             threshold_used |-> similarity_threshold]
        Partition(covered) ==
            Result(SubseqAt(requirements, covered),
                   SubseqAt(requirements, (1..n) \ covered))
        Covered(cases_keywords) ==
            Partition({i \in 1..n :
                IsCovered(requirements[i], cases_keywords, similarity_threshold, order)})
    IN  IF n = 0
        THEN [coverage_rate |-> ROne, covered_count |-> 0, uncovered_count |-> 0,
              total_requirements |-> 0, covered_requirements |-> <<>>,
              uncovered_requirements |-> <<>>,
              threshold_used |-> similarity_threshold]
        ELSE Covered(CasesKeywords(test_cases, order))

features ==
    [normal_flow |-> {<<"u6b63", "u5e38">>, <<"u6210", "u529f">>, <<"u6210", "u529f", "u767b", "u5f55">>, <<"u6b63", "u786e">>},
     exception_flow |-> {<<"u5f02", "u5e38">>, <<"u5931", "u8d25">>, <<"u9519", "u8bef">>, <<"u4e0d", "u6b63", "u786e">>, <<"u65e0", "u6548">>},
     boundary_value |-> {<<"u8fb9", "u754c">>, <<"u6781", "u9650">>, <<"u6700", "u5927">>, <<"u6700", "u5c0f">>, <<"u4e3a", "u7a7a">>, <<"u7a7a", "u503c">>},
     access_control |-> {<<"u6743", "u9650">>, <<"u6743", "u9650", "u68c0", "u67e5">>, <<"u8bbf", "u95ee", "u63a7", "u5236">>, <<"u8ba4", "u8bc1">>, <<"u6388", "u6743">>},
     data_validation |-> {<<"u9a8c", "u8bc1">>, <<"u6821", "u9a8c">>, <<"u68c0", "u67e5">>, <<"u5408", "u6cd5">>, <<"u975e", "u6cd5">>},
     performance |-> {<<"u6027", "u80fd">>, <<"u901f", "u5ea6">>, <<"u54cd", "u5e94">>, <<"u8d85", "u65f6">>, <<"u5ef6", "u8fdf">>},
     concurrency |-> {<<"u5e76", "u53d1">>, <<"u540c", "u65f6">>, <<"u5e76", "u884c">>, <<"u7ade", "u6001">>}]

calculate_feature_coverage(test_cases) ==
    LET covered == {f \in DOMAIN features :
                       \E i \in 1..Len(test_cases) : ContainsAny(test_cases[i], features[f])}
        total_features == Cardinality(DOMAIN features)
    IN  [covered_features |-> Cardinality(covered),
         total_features |-> total_features,
         feature_coverage_rate |-> Rat(Cardinality(covered), total_features)]

coverage_evaluate(prd_text, test_cases, order) ==
    LET Result(requirements, requirement_coverage, feature_coverage) ==
            [requirement_coverage |-> requirement_coverage,
             feature_coverage |-> feature_coverage,
             overall_coverage |->
                RAdd(RMul(requirement_coverage.coverage_rate, Rat(6, 10)),
                     RMul(feature_coverage.feature_coverage_rate, Rat(4, 10))),
             requirements_extracted |-> Len(requirements)]
        Coverage(requirements) ==
            Result(requirements,
                   calculate_requirement_coverage(
                       requirements, test_cases, requirement_overlap_threshold, order),
                   calculate_feature_coverage(test_cases))
    IN  Coverage(extract_requirements(prd_text))

-----------------------------------------------------------------------------
(* The embedding provider (SentenceEncoder with SimilarityModel).  For one  *)
(* call it is up or down (encode raises), and when it is up its embeddings *)
(* give two different texts the cosine similarity sim, or low when the     *)
(* pair of texts is in apart; equal texts have equal embeddings.           *)

Cosine(provider, a, b) ==
    IF a = b THEN ROne
    ELSE IF {a, b} \in provider.apart THEN provider.low
    ELSE provider.sim

\* SimilarityModel.deduplicate_texts: the pairs (i, j, similarity), i < j
deduplicate_texts(texts, threshold, provider) ==
    IF ~provider.up THEN {}
    ELSE {<<p[1], p[2], Cosine(provider, texts[p[1] + 1], texts[p[2] + 1])>> :
            p \in {q \in (0..(Len(texts) - 1)) \X (0..(Len(texts) - 1)) :
                      /\ q[1] < q[2]
                      /\ RLe(threshold,
                             Cosine(provider, texts[q[1] + 1], texts[q[2] + 1]))}}

\* SimilarityModel.text_similarity: 0.0 when encode raises
text_similarity(text1, text2, provider) ==
    IF ~provider.up THEN RZero ELSE Cosine(provider, text1, text2)

\* A faulty pass that also takes a later text when it is similar to some text
\* between the seed and it
RECURSIVE ClustersFrom_chained(_, _, _, _, _)
ClustersFrom_chained(texts, threshold, provider, i, visited) ==
    LET Cluster(members) ==
            <<SubseqAt([k \in 1..Len(texts) |-> k - 1], members)>>
            \o ClustersFrom_chained(texts, threshold, provider, i + 1,
                                    visited \cup members)
    IN  IF i > Len(texts) THEN <<>>
        ELSE IF i \in visited
        THEN ClustersFrom_chained(texts, threshold, provider, i + 1, visited)
        ELSE Cluster({i} \cup {j \in (i + 1)..Len(texts) :
                                  /\ j \notin visited
                                  /\ \E m \in i..(j - 1) :
                                        RLe(threshold,
                                            Cosine(provider, texts[m], texts[j]))})

\* A faulty pass that never marks the texts a cluster took as visited
RECURSIVE ClustersFrom_without_visited(_, _, _, _, _)
ClustersFrom_without_visited(texts, threshold, provider, i, visited) ==
    LET Cluster(members) ==
            <<SubseqAt([k \in 1..Len(texts) |-> k - 1], members)>>
            \o ClustersFrom_without_visited(texts, threshold, provider, i + 1, visited)
    IN  IF i > Len(texts) THEN <<>>
        ELSE Cluster({i} \cup {j \in (i + 1)..Len(texts) :
                                  RLe(threshold, Cosine(provider, texts[i], texts[j]))})

\* The greedy pass of semantic_clustering from text i on: a text not yet
\* visited opens a cluster and takes the later unvisited texts whose
\* similarity to it reaches the threshold.  Indices count from 0.
RECURSIVE ClustersFrom(_, _, _, _, _)
ClustersFrom(texts, threshold, provider, i, visited) ==
    LET Cluster(members) ==
            <<SubseqAt([k \in 1..Len(texts) |-> k - 1], members)>>
            \o ClustersFrom(texts, threshold, provider, i + 1, visited \cup members)
    IN  IF i > Len(texts) THEN <<>>
        ELSE IF i \in visited
        THEN ClustersFrom(texts, threshold, provider, i + 1, visited)
        ELSE Cluster({i} \cup {j \in (i + 1)..Len(texts) :
                                  /\ j \notin visited
                                  /\ RLe(threshold, Cosine(provider, texts[i], texts[j]))})

\* A faulty clustering that makes every text a cluster of its own when
\* encode raises
semantic_clustering_singletons_on_failure(texts, threshold, provider) ==
    IF ~provider.up THEN [k \in 1..Len(texts) |-> <<k - 1>>]
    ELSE ClustersFrom(texts, threshold, provider, 1, {})

\* SimilarityModel.semantic_clustering: [] when encode raises
semantic_clustering(texts, threshold, provider) ==
    IF ~provider.up THEN <<>>
    ELSE ClustersFrom(texts, threshold, provider, 1, {})

-----------------------------------------------------------------------------
(* UniquenessMetric (metrics/uniqueness_metric.py).  A list of pairs is    *)
(* the set of its pairs: the code appends each pair once, in index order.  *)

keyword_punctuation ==
    {"u3002", "uff01", "uff1f", "uff0c", "u3001", "uff1b", "uff1a", "\"",
     "uff08", "uff09", "u3010", "u3011", "\n", "\t"}

keyword_stopwords ==
    {<<"u7684">>, <<"u4e86">>, <<"u548c">>, <<"u662f">>, <<"u5728">>, <<"u6709">>,
     <<"u7528">>, <<"u53ef", "u4ee5">>, <<"u5e94", "u8be5">>, <<"u9700", "u8981">>,
     <<"u5fc5", "u987b">>}

scenario_patterns ==
    [normal |-> {<<"u6b63", "u5e38">>, <<"u6210", "u529f">>, <<"u6b63", "u786e">>,
                 <<"u6709", "u6548">>},
     exception |-> {<<"u5f02", "u5e38">>, <<"u5931", "u8d25">>, <<"u9519", "u8bef">>,
                    <<"u65e0", "u6548">>, <<"u975e", "u6cd5">>},
     boundary |-> {<<"u8fb9", "u754c">>, <<"u6781", "u9650">>, <<"u6700", "u5927">>,
                   <<"u6700", "u5c0f">>, <<"u4e3a", "u7a7a">>, <<"u7a7a", "u503c">>,
                   <<"u957f", "u5ea6">>},
     performance |-> {<<"u6027", "u80fd">>, <<"u901f", "u5ea6">>, <<"u54cd", "u5e94">>,
                      <<"u8d85", "u65f6">>, <<"u5ef6", "u8fdf">>, <<"u5e76", "u53d1">>},
     security |-> {<<"u5b89", "u5168">>, <<"u6743", "u9650">>, <<"u8ba4", "u8bc1">>,
                   <<"u6388", "u6743">>, <<"u52a0", "u5bc6">>, <<"u9690", "u79c1">>}]

\* The pairs i < j of the indices of a list
IndexPairs(n) == {q \in (0..(n - 1)) \X (0..(n - 1)) : q[1] < q[2]}

\* A faulty detection that compares each case with the next one only
detect_exact_duplicates_adjacent(test_cases) ==
    {q \in IndexPairs(Len(test_cases)) :
        q[2] = q[1] + 1 /\ strip(test_cases[q[1] + 1]) = strip(test_cases[q[2] + 1])}

detect_exact_duplicates(test_cases) ==
    LET Same(stripped) ==
            {q \in IndexPairs(Len(test_cases)) : stripped[q[1] + 1] = stripped[q[2] + 1]}
    IN  Same([k \in 1..Len(test_cases) |-> strip(test_cases[k])])

\* text.split() after the punctuation became spaces, without short words and
\* stop words
_extract_keywords(text) ==
    LET Words(t) == Runs(t, {i \in 1..Len(t) : ~IsSpace(t[i])})
    IN  {w \in Words([i \in 1..Len(text) |->
                        IF text[i] \in keyword_punctuation THEN " " ELSE text[i]]) :
            Len(w) > 1 /\ w \notin keyword_stopwords}

_detect_near_duplicates_by_keywords(test_cases, threshold) ==
    LET Jaccard(a, b) == Rat(Cardinality(a \cap b), Cardinality(a \cup b))
        Near(keywords) ==
            {<<p[1], p[2], Jaccard(keywords[p[1] + 1], keywords[p[2] + 1])>> :
                p \in {q \in IndexPairs(Len(test_cases)) :
                          /\ keywords[q[1] + 1] # {}
                          /\ keywords[q[2] + 1] # {}
                          /\ RLe(threshold,
                                 Jaccard(keywords[q[1] + 1], keywords[q[2] + 1]))}}
    IN  Near([k \in 1..Len(test_cases) |-> _extract_keywords(test_cases[k])])

\* similarity_model: whether the metric has a SimilarityModel
detect_near_duplicates(test_cases, threshold, similarity_model, provider) ==
    IF ~similarity_model
    THEN _detect_near_duplicates_by_keywords(test_cases, threshold)
    ELSE deduplicate_texts(test_cases, threshold, provider)

\* A faulty diversity score without the final max(0.0, min(1.0, ...))
calculate_diversity_score_unclamped(test_cases, similarity_model, provider) ==
    LET n == Len(test_cases)
        Score(duplicate_pairs) ==
            RSub(ROne, Rat(duplicate_pairs, (n * (n - 1)) \div 2))
    IN  IF n <= 1 THEN ROne
        ELSE Score(Cardinality(detect_exact_duplicates(test_cases))
                   + Cardinality(detect_near_duplicates(
                         test_cases, Rat(85, 100), similarity_model, provider)))

calculate_diversity_score(test_cases, similarity_model, provider) ==
    LET n == Len(test_cases)
        Score(duplicate_pairs) ==
            RMax(RZero, RMin(ROne, RSub(ROne, Rat(duplicate_pairs, (n * (n - 1)) \div 2))))
    IN  IF n <= 1 THEN ROne
        ELSE Score(Cardinality(detect_exact_duplicates(test_cases))
                   + Cardinality(detect_near_duplicates(
                         test_cases, Rat(85, 100), similarity_model, provider)))

calculate_scenario_diversity(test_cases) ==
    LET Result(scenarios) ==
            [scenarios |-> scenarios,
             covered_scenarios |-> Cardinality({s \in DOMAIN scenarios : scenarios[s] > 0}),
             total_scenarios |-> Cardinality(DOMAIN scenarios),
             diversity_score |->
                Rat(Cardinality({s \in DOMAIN scenarios : scenarios[s] > 0}),
                    Cardinality(DOMAIN scenarios))]
    IN  Result([s \in DOMAIN scenario_patterns |->
                  Cardinality({k \in 1..Len(test_cases) :
                                  ContainsAny(test_cases[k], scenario_patterns[s])})])

\* "excellent", "good", "medium", "needs_improvement" stand for the four labels
uniqueness_get_quality_level(diversity_score, deduplication_rate) ==
    LET Level(combined_score) ==
            IF RLe(Rat(9, 10), combined_score) THEN "excellent"
            ELSE IF RLe(Rat(75, 100), combined_score) THEN "good"
            ELSE IF RLe(Rat(6, 10), combined_score) THEN "medium"
            ELSE "needs_improvement"
    IN  Level(RDiv(RAdd(diversity_score, deduplication_rate), RInt(2)))

uniqueness_evaluate(test_cases, similarity_model, provider) ==
    LET n == Len(test_cases)
        max_possible_pairs == (n * (n - 1)) \div 2
        Result(exact_duplicates, near_duplicates, diversity_score, deduplication_rate) ==
            [total_cases |-> n,
             exact_duplicates |-> exact_duplicates,
             exact_duplicate_count |-> Cardinality(exact_duplicates),
             near_duplicates |-> near_duplicates,
             near_duplicate_count |-> Cardinality(near_duplicates),
             total_duplicate_pairs |->
                Cardinality(exact_duplicates) + Cardinality(near_duplicates),
             deduplication_rate |-> deduplication_rate,
             diversity_score |-> diversity_score,
             scenario_diversity |-> calculate_scenario_diversity(test_cases),
             quality_level |->
                uniqueness_get_quality_level(diversity_score, deduplication_rate)]
        Rates(exact_duplicates, near_duplicates) ==
            Result(exact_duplicates, near_duplicates,
                   calculate_diversity_score(test_cases, similarity_model, provider),
                   RSub(ROne,
                        IF max_possible_pairs > 0
                        THEN Rat(Cardinality(exact_duplicates) + Cardinality(near_duplicates),
                                 max_possible_pairs)
                        ELSE RZero))
    IN  Rates(detect_exact_duplicates(test_cases),
              detect_near_duplicates(test_cases, Rat(85, 100), similarity_model, provider))

-----------------------------------------------------------------------------
(* Scanning with a regular expression: ends[p] is the last position of the *)
(* match that starts at p, 0 when nothing matches there.                   *)

\* len(re.findall(pattern, t)): the matches from left to right, without overlap
RECURSIVE CountFrom(_, _)
CountFrom(ends, from) ==
    LET Next1(starts) ==
            IF starts = {} THEN 0 ELSE 1 + CountFrom(ends, ends[Min(starts)] + 1)
    IN  Next1({p \in from..Len(ends) : ends[p] > 0})

\* The last position of the run of digits (of spaces) that starts at p;
\* p - 1 when there is none
DigitRunEnd(t, p) == Min({j \in p..(Len(t) + 1) : j > Len(t) \/ ~IsDigit(t[j])}) - 1
SpaceRunEnd(t, p) == Min({j \in p..(Len(t) + 1) : j > Len(t) \/ ~IsSpace(t[j])}) - 1
\* ^ under re.MULTILINE
LineStart(t, p) == p = 1 \/ (p > 1 /\ p <= Len(t) + 1 /\ t[p - 1] = "\n")

\* \d+\.  at p
NumberedEnd(t, p) ==
    LET End(e) == IF e < Len(t) /\ t[e + 1] = "." THEN e + 1 ELSE 0
    IN  IF p <= Len(t) /\ IsDigit(t[p]) THEN End(DigitRunEnd(t, p)) ELSE 0
\* u6b65 u9aa4 \d+  at p (the word "step" and a number)
LabelledEnd(t, p) ==
    IF p + 2 <= Len(t) /\ t[p] = "u6b65" /\ t[p + 1] = "u9aa4" /\ IsDigit(t[p + 2])
    THEN DigitRunEnd(t, p + 2)
    ELSE 0
\* ^\s*\d+\.  at p
NumberedLineEnd(t, p) ==
    IF LineStart(t, p) THEN NumberedEnd(t, SpaceRunEnd(t, p) + 1) ELSE 0
\* ^-\s+  at p
DashLineEnd(t, p) ==
    IF LineStart(t, p) /\ p < Len(t) /\ t[p] = "-" /\ IsSpace(t[p + 1])
    THEN SpaceRunEnd(t, p + 1)
    ELSE 0

-----------------------------------------------------------------------------
(* StructureMetric (metrics/structure_metric.py)                           *)

None == "None"

\* KEYWORDS, in the order of the dict
KEYWORDS ==
    <<[section |-> "title",
       keywords |-> {<<"u6807", "u9898">>, <<"u7528", "u4f8b", "u540d", "u79f0">>,
                      <<"u6d4b", "u8bd5", "u7528", "u4f8b">>,
                      <<"c", "a", "s", "e", " ", "n", "a", "m", "e">>, <<"t", "i", "t", "l", "e">>}],
      [section |-> "precondition",
       keywords |-> {<<"u524d", "u7f6e", "u6761", "u4ef6">>, <<"u524d", "u63d0", "u6761", "u4ef6">>,
                      <<"p", "r", "e", "c", "o", "n", "d", "i", "t", "i", "o", "n">>,
                      <<"u524d", "u7f6e">>,
                      <<"p", "r", "e", "r", "e", "q", "u", "i", "s", "i", "t", "e">>}],
      [section |-> "steps",
       keywords |-> {<<"u64cd", "u4f5c", "u6b65", "u9aa4">>, <<"u6b65", "u9aa4">>,
                      <<"u64cd", "u4f5c">>, <<"s", "t", "e", "p", "s">>,
                      <<"u64cd", "u4f5c", "u6d41", "u7a0b">>, <<"u6d41", "u7a0b">>}],
      [section |-> "expected_result",
       keywords |-> {<<"u9884", "u671f", "u7ed3", "u679c">>, <<"u671f", "u671b", "u7ed3", "u679c">>,
                      <<"u9884", "u671f">>,
                      <<"e", "x", "p", "e", "c", "t", "e", "d", " ", "r", "e", "s", "u", "l", "t">>,
                      <<"u9884", "u671f", "u8f93", "u51fa">>, <<"u7ed3", "u679c">>}]>>

structure_weights ==
    [title |-> Rat(1, 10), precondition |-> Rat(2, 10), steps |-> Rat(4, 10),
     expected_result |-> Rat(3, 10)]

_detect_section(line) ==
    LET Detect(hits) == IF hits = {} THEN None ELSE KEYWORDS[Min(hits)].section
    IN  Detect({k \in 1..Len(KEYWORDS) : ContainsAny(lower(line), KEYWORDS[k].keywords)})

\* A faulty parser whose section content leaves out the line that starts it
extract_structure_without_heading(test_case) ==
    LET Strip(raw) == [i \in 1..Len(raw) |-> strip(raw[i])]
        NonEmpty(s) == SubseqAt(s, {i \in 1..Len(s) : s[i] # <<>>})
        \* the lines from the last heading of the element to the next heading
        Saved(lines, section, heads) ==
            IF heads = {} THEN <<>>
            ELSE strip(join(Sub(lines, Max(heads) + 1,
                     Min({j \in Max(heads)..Len(lines) :
                             j = Len(lines) \/ section[j + 1] # None}))))
        Content(lines, section, element) ==
            Saved(lines, section, {i \in 1..Len(lines) : section[i] = element})
        Structure(lines, section) ==
            [title |-> Content(lines, section, "title"),
             precondition |-> Content(lines, section, "precondition"),
             steps |-> Content(lines, section, "steps"),
             expected_result |-> Content(lines, section, "expected_result")]
        Sections(lines) ==
            Structure(lines, [i \in 1..Len(lines) |-> _detect_section(lines[i])])
    IN  Sections(NonEmpty(Strip(split(test_case, "\n"))))

\* A faulty parser that keeps the first span of a section instead of the last
extract_structure_first_wins(test_case) ==
    LET Strip(raw) == [i \in 1..Len(raw) |-> strip(raw[i])]
        NonEmpty(s) == SubseqAt(s, {i \in 1..Len(s) : s[i] # <<>>})
        \* the lines from the last heading of the element to the next heading
        Saved(lines, section, heads) ==
            IF heads = {} THEN <<>>
            ELSE strip(join(Sub(lines, Min(heads),
                     Min({j \in Min(heads)..Len(lines) :
                             j = Len(lines) \/ section[j + 1] # None}))))
        Content(lines, section, element) ==
            Saved(lines, section, {i \in 1..Len(lines) : section[i] = element})
        Structure(lines, section) ==
            [title |-> Content(lines, section, "title"),
             precondition |-> Content(lines, section, "precondition"),
             steps |-> Content(lines, section, "steps"),
             expected_result |-> Content(lines, section, "expected_result")]
        Sections(lines) ==
            Structure(lines, [i \in 1..Len(lines) |-> _detect_section(lines[i])])
    IN  Sections(NonEmpty(Strip(split(test_case, "\n"))))

\* A faulty parser that starts in the title section, so that the lines before
\* the first heading are collected as the title
extract_structure_leading_title(test_case) ==
    LET Strip(raw) == [i \in 1..Len(raw) |-> strip(raw[i])]
        NonEmpty(s) == SubseqAt(s, {i \in 1..Len(s) : s[i] # <<>>})
        \* the lines from the last heading of the element to the next heading
        Saved(lines, section, heads) ==
            IF heads = {} THEN <<>>
            ELSE strip(join(Sub(lines, Max(heads),
                     Min({j \in Max(heads)..Len(lines) :
                             j = Len(lines) \/ section[j + 1] # None}))))
        Content(lines, section, element) ==
            Saved(lines, section, {i \in 1..Len(lines) : section[i] = element})
        Structure(lines, section) ==
            [title |-> Content(lines, section, "title"),
             precondition |-> Content(lines, section, "precondition"),
             steps |-> Content(lines, section, "steps"),
             expected_result |-> Content(lines, section, "expected_result")]
        Sections(lines) ==
            Structure(lines, [i \in 1..Len(lines) |->
                                 IF i = 1 /\ _detect_section(lines[1]) = None
                                 THEN "title" ELSE _detect_section(lines[i])])
    IN  Sections(NonEmpty(Strip(split(test_case, "\n"))))

extract_structure(test_case) ==
    LET Strip(raw) == [i \in 1..Len(raw) |-> strip(raw[i])]
        NonEmpty(s) == SubseqAt(s, {i \in 1..Len(s) : s[i] # <<>>})
        \* the lines from the last heading of the element to the next heading
        Saved(lines, section, heads) ==
            IF heads = {} THEN <<>>
            ELSE strip(join(Sub(lines, Max(heads),
                     Min({j \in Max(heads)..Len(lines) :
                             j = Len(lines) \/ section[j + 1] # None}))))
        Content(lines, section, element) ==
            Saved(lines, section, {i \in 1..Len(lines) : section[i] = element})
        Structure(lines, section) ==
            [title |-> Content(lines, section, "title"),
             precondition |-> Content(lines, section, "precondition"),
             steps |-> Content(lines, section, "steps"),
             expected_result |-> Content(lines, section, "expected_result")]
        Sections(lines) ==
            Structure(lines, [i \in 1..Len(lines) |-> _detect_section(lines[i])])
    IN  Sections(NonEmpty(Strip(split(test_case, "\n"))))

check_element_presence(structure) ==
    [element \in DOMAIN structure |-> strip(structure[element]) # <<>>]

\* len(re.findall(r'\d+\.|u6b65u9aa4\d+', content))
structure_step_count(content) ==
    CountFrom([p \in 1..Len(content) |->
                  IF NumberedEnd(content, p) > 0 THEN NumberedEnd(content, p)
                  ELSE LabelledEnd(content, p)], 1)

check_element_quality(structure) ==
    LET Title(content_len) ==
            IF 10 <= content_len /\ content_len <= 50 THEN ROne
            ELSE IF (5 <= content_len /\ content_len < 10)
                    \/ (50 < content_len /\ content_len <= 100) THEN Rat(7, 10)
            ELSE Rat(4, 10)
        Length(content_len) ==
            IF content_len >= 20 THEN ROne
            ELSE IF content_len >= 10 THEN Rat(6, 10)
            ELSE Rat(3, 10)
        Steps(content_len, step_count) ==
            IF content_len >= 50 /\ step_count >= 2 THEN ROne
            ELSE IF content_len >= 30 /\ step_count >= 1 THEN Rat(7, 10)
            ELSE Rat(4, 10)
        Quality(element, content) ==
            IF content = <<>> THEN RZero
            ELSE IF element = "title" THEN Title(Len(strip(content)))
            ELSE IF element = "steps"
                 THEN Steps(Len(strip(content)), structure_step_count(content))
            ELSE Length(Len(strip(content)))
    IN  [element \in DOMAIN structure |-> Quality(element, structure[element])]

calculate_completeness(test_case) ==
    LET Score(present, quality) ==
            RAdd(RMul(RInt(IF present THEN 1 ELSE 0), Rat(1, 2)), RMul(quality, Rat(1, 2)))
        Total(presence, quality) ==
            RAdd(RAdd(RAdd(RMul(Score(presence.title, quality.title),
                                structure_weights.title),
                           RMul(Score(presence.precondition, quality.precondition),
                                structure_weights.precondition)),
                      RMul(Score(presence.steps, quality.steps), structure_weights.steps)),
                 RMul(Score(presence.expected_result, quality.expected_result),
                      structure_weights.expected_result))
        Of(structure) ==
            Total(check_element_presence(structure), check_element_quality(structure))
    IN  Of(extract_structure(test_case))

structure_evaluate(test_case) ==
    LET Details(presence) ==
            [has_title |-> presence.title, has_precondition |-> presence.precondition,
             has_steps |-> presence.steps,
             has_expected_result |-> presence.expected_result]
        Of(structure) ==
            [structure |-> structure,
             presence |-> check_element_presence(structure),
             quality |-> check_element_quality(structure),
             completeness_score |-> calculate_completeness(test_case),
             details |-> Details(check_element_presence(structure))]
    IN  Of(extract_structure(test_case))

-----------------------------------------------------------------------------
(* QualityMetric (metrics/quality_metric.py)                               *)

Clamp01(score) == RMax(RZero, RMin(ROne, score))

vague_words ==
    {<<"u53ef", "u80fd">>, <<"u4e5f", "u8bb8">>, <<"u4f3c", "u4e4e">>,
     <<"u5927", "u6982">>, <<"u5927", "u7ea6">>, <<"u5de6", "u53f3">>,
     <<"u7b49", "u7b49">>, <<"u4e4b", "u7c7b">>}

action_verbs ==
    {<<"u70b9", "u51fb">>, <<"u8f93", "u5165">>, <<"u9009", "u62e9">>,
     <<"u52fe", "u9009">>, <<"u53d6", "u6d88">>, <<"u6253", "u5f00">>,
     <<"u5173", "u95ed">>, <<"u63d0", "u4ea4">>, <<"u786e", "u8ba4">>,
     <<"u5220", "u9664">>}

result_keywords ==
    {<<"u663e", "u793a">>, <<"u51fa", "u73b0">>, <<"u6210", "u529f">>,
     <<"u5931", "u8d25">>, <<"u9519", "u8bef">>, <<"u63d0", "u793a">>,
     <<"u8fd4", "u56de">>, <<"u8df3", "u8f6c">>}

ui_elements ==
    {<<"u6309", "u94ae">>, <<"u8f93", "u5165", "u6846">>, <<"u4e0b", "u62c9", "u6846">>,
     <<"u590d", "u9009", "u6846">>, <<"u5355", "u9009", "u6846">>,
     <<"u6587", "u672c", "u6846">>, <<"u94fe", "u63a5">>, <<"u83dc", "u5355">>}

expectation_words ==
    {<<"u9884", "u671f">>, <<"u671f", "u671b">>, <<"u5e94", "u8be5">>,
     <<"u5e94", "u5f53">>, <<"u4f1a">>}

input_words ==
    {<<"u8f93", "u5165">>, <<"u586b", "u5199">>, <<"u8f93", "u5165", "u6846">>,
     <<"u6587", "u672c", "u6846">>}

verification_words ==
    {<<"u9a8c", "u8bc1">>, <<"u68c0", "u67e5">>, <<"u786e", "u8ba4">>,
     <<"u67e5", "u770b">>}

check_clarity(text) ==
    LET vague_penalty == RMin(Rat(CountIn(text, vague_words), 10), Rat(3, 10))
        action_bonus == RMin(Rat(CountIn(text, action_verbs), 20), Rat(3, 10))
        result_bonus == RMin(Rat(CountIn(text, result_keywords), 20), Rat(2, 10))
    IN  IF text = <<>> THEN RZero
        ELSE Clamp01(RAdd(RAdd(RSub(Rat(1, 2), vague_penalty), action_bonus),
                          result_bonus))

\* len(re.findall(r"(^\s*\d+\.|u6b65u9aa4\d+|^-\s+)", steps_text, re.MULTILINE))
quality_step_count(steps_text) ==
    CountFrom([p \in 1..Len(steps_text) |->
                  IF NumberedLineEnd(steps_text, p) > 0
                  THEN NumberedLineEnd(steps_text, p)
                  ELSE IF LabelledEnd(steps_text, p) > 0
                  THEN LabelledEnd(steps_text, p)
                  ELSE DashLineEnd(steps_text, p)], 1)

check_completeness(structure) ==
    LET Title(title_len) ==
            IF 10 <= title_len /\ title_len <= 100 THEN Rat(15, 100)
            ELSE IF title_len > 0 THEN Rat(8, 100) ELSE RZero
        Precondition(precondition_len) ==
            IF precondition_len >= 20 THEN Rat(2, 10)
            ELSE IF precondition_len > 0 THEN Rat(1, 10) ELSE RZero
        Steps(steps_len, step_count) ==
            IF steps_len >= 50 /\ step_count >= 2 THEN Rat(35, 100)
            ELSE IF steps_len >= 30 THEN Rat(2, 10)
            ELSE IF steps_len > 0 THEN Rat(1, 10) ELSE RZero
        Expected(expected_result_len) ==
            IF expected_result_len >= 20 THEN Rat(3, 10)
            ELSE IF expected_result_len > 0 THEN Rat(15, 100) ELSE RZero
    IN  Clamp01(RAdd(RAdd(Title(Len(strip(structure.title))),
                          Precondition(Len(strip(structure.precondition)))),
                     RAdd(Steps(Len(strip(structure.steps)),
                                quality_step_count(strip(structure.steps))),
                          Expected(Len(strip(structure.expected_result))))))

\* re.search(r"\d+\.|u6b65u9aa4\d+", t)
HasStepMark(t) == \E p \in 1..Len(t) : NumberedEnd(t, p) > 0 \/ LabelledEnd(t, p) > 0

check_executability(test_case) ==
    LET steps == IF HasStepMark(test_case)
                    \/ \E p \in 1..Len(test_case) :
                          LineStart(test_case, p) /\ test_case[p] = "-"
                 THEN Rat(2, 10) ELSE RZero
        expected == IF ContainsAny(test_case, expectation_words) THEN Rat(2, 10) ELSE RZero
        input == IF ContainsAny(test_case, input_words) THEN Rat(1, 10) ELSE RZero
    IN  Clamp01(RAdd(RAdd(Rat(1, 2), steps), RAdd(expected, input)))

\* set(re.findall(r"\w+", t))
WordsOf(t) == Runs(t, {i \in 1..Len(t) : IsWordChar(t[i])})

check_independence(test_case, other_cases) ==
    LET Similarity(case_words, other_words) ==
            IF case_words = {} \/ other_words = {} THEN RZero
            ELSE Rat(Cardinality(case_words \cap other_words),
                     Cardinality(case_words \cup other_words))
        Scores(case_words) ==
            [k \in 1..Len(other_cases) |-> Similarity(case_words, WordsOf(other_cases[k]))]
        Independence(similarity_scores) ==
            Clamp01(RSub(ROne, RDiv(RSum(similarity_scores),
                                    RInt(Len(similarity_scores)))))
    IN  IF other_cases = <<>> THEN ROne
        ELSE Independence(Scores(WordsOf(test_case)))

\* re.search(r"[0-9]{1,}|\"[^\"]*\"|'[^']*'", t)
HasDataValue(t) ==
    \/ \E i \in 1..Len(t) : t[i] \in Digits
    \/ Cardinality({i \in 1..Len(t) : t[i] = "\""}) >= 2
    \/ Cardinality({i \in 1..Len(t) : t[i] = "'"}) >= 2

check_specificity(test_case) ==
    LET ui == RMin(Rat(CountIn(test_case, ui_elements), 10), Rat(3, 10))
        data == IF HasDataValue(test_case) THEN Rat(3, 10) ELSE RZero
        sequence == IF HasStepMark(test_case) THEN Rat(2, 10) ELSE RZero
        verification ==
            IF ContainsAny(test_case, verification_words) THEN Rat(2, 10) ELSE RZero
    IN  Clamp01(RAdd(RAdd(ui, data), RAdd(sequence, verification)))

quality_get_quality_level(score) ==
    IF RLe(Rat(85, 100), score) THEN "excellent"
    ELSE IF RLe(Rat(7, 10), score) THEN "good"
    ELSE IF RLe(Rat(5, 10), score) THEN "medium"
    ELSE "needs_improvement"

quality_evaluate(test_case, structure, other_cases) ==
    LET Overall(clarity, completeness, executability, independence, specificity) ==
            RAdd(RAdd(RAdd(RMul(clarity, Rat(2, 10)), RMul(completeness, Rat(25, 100))),
                      RAdd(RMul(executability, Rat(2, 10)),
                           RMul(independence, Rat(15, 100)))),
                 RMul(specificity, Rat(2, 10)))
        Report(clarity, completeness, executability, independence, specificity, overall) ==
            [clarity_score |-> clarity,
             completeness_score |-> completeness,
             executability_score |-> executability,
             independence_score |-> independence,
             specificity_score |-> specificity,
             overall_quality |-> overall,
             quality_level |-> quality_get_quality_level(overall)]
        Scores(clarity, completeness, executability, independence, specificity) ==
            Report(clarity, completeness, executability, independence, specificity,
                   Overall(clarity, completeness, executability, independence,
                           specificity))
    IN  Scores(check_clarity(test_case), check_completeness(structure),
               check_executability(test_case),
               check_independence(test_case, other_cases),
               check_specificity(test_case))

-----------------------------------------------------------------------------
(* SimilarityMetric (metrics/similarity_metric.py)                         *)

\* The dict {}
EmptyDict == <<>>

Mean(s) == IF s = <<>> THEN RZero ELSE RDiv(RSum(s), RInt(Len(s)))
RMaxOf(S) == CHOOSE x \in S : \A y \in S : RLe(y, x)
RMinOf(S) == CHOOSE x \in S : \A y \in S : RLe(x, y)

\* encode raises when the provider is down, and max() of a row without
\* reference cases raises; both end in the except branch
calculate_batch_similarity(generated_cases, reference_cases, provider) ==
    LET Row(g) ==
            [j \in 1..Len(reference_cases) |-> Cosine(provider, g, reference_cases[j])]
        Stats(similarity_matrix, max_similarities, avg_similarities) ==
            [similarity_matrix |-> similarity_matrix,
             max_similarities |-> max_similarities,
             avg_similarities |-> avg_similarities,
             mean_max_similarity |-> Mean(max_similarities),
             mean_avg_similarity |-> Mean(avg_similarities)]
        Rows(similarity_matrix) ==
            Stats(similarity_matrix,
                  [i \in 1..Len(generated_cases) |-> RMaxOf(Range(similarity_matrix[i]))],
                  [i \in 1..Len(generated_cases) |-> Mean(similarity_matrix[i])])
    IN  IF ~provider.up \/ (generated_cases # <<>> /\ reference_cases = <<>>)
        THEN EmptyDict
        ELSE Rows([i \in 1..Len(generated_cases) |-> Row(generated_cases[i])])

\* sorted(similarities)[k], k from 0
SortedAt(similarities, k) ==
    CHOOSE v \in Range(similarities) :
        /\ Cardinality({i \in 1..Len(similarities) : RLt(similarities[i], v)}) <= k
        /\ k < Cardinality({i \in 1..Len(similarities) : RLe(similarities[i], v)})

_analyze_similarity_distribution(similarities) ==
    LET n == Len(similarities)
    IN  IF similarities = <<>> THEN EmptyDict
        ELSE [min |-> RMinOf(Range(similarities)),
              max |-> RMaxOf(Range(similarities)),
              mean |-> Mean(similarities),
              median |-> SortedAt(similarities, n \div 2),
              q1 |-> SortedAt(similarities, n \div 4),
              q3 |-> SortedAt(similarities, (3 * n) \div 4),
              count |-> n]

evaluate_against_reference(generated_cases, reference_cases, similarity_threshold, provider) ==
    LET High(max_similarities) ==
            {i \in 1..Len(max_similarities) :
                RLe(similarity_threshold, max_similarities[i])}
        Low(max_similarities) ==
            {i \in 1..Len(max_similarities) : RLt(max_similarities[i], Rat(5, 10))}
        Report(batch_similarity, high_similarity_count) ==
            [total_generated |-> Len(generated_cases),
             total_reference |-> Len(reference_cases),
             high_similarity_count |-> high_similarity_count,
             low_similarity_count |-> Cardinality(Low(batch_similarity.max_similarities)),
             coverage_rate |->
                 IF generated_cases # <<>>
                 THEN Rat(high_similarity_count, Len(generated_cases))
                 ELSE RZero,
             mean_max_similarity |-> batch_similarity.mean_max_similarity,
             mean_avg_similarity |-> batch_similarity.mean_avg_similarity,
             similarity_distribution |->
                 _analyze_similarity_distribution(batch_similarity.max_similarities),
             details |-> [max_similarities |-> batch_similarity.max_similarities,
                          avg_similarities |-> batch_similarity.avg_similarities]]
        Evaluate(batch_similarity) ==
            IF DOMAIN batch_similarity = {}
            THEN [status |-> "error", message |-> "similarity failed"]
            ELSE Report(batch_similarity, Cardinality(High(batch_similarity.max_similarities)))
    IN  Evaluate(calculate_batch_similarity(generated_cases, reference_cases, provider))

\* text_similarity catches the provider's exception itself
calculate_case_similarity(generated_case, reference_case, provider) ==
    text_similarity(generated_case, reference_case, provider)

\* deduplicate_texts catches the provider's exception itself
detect_duplicates_in_generated(generated_cases, threshold, provider) ==
    deduplicate_texts(generated_cases, threshold, provider)

\* semantic_clustering catches the provider's exception itself and returns
\* no cluster; the except branch of cluster_generated_cases is not reached
cluster_generated_cases(generated_cases, threshold, provider) ==
    LET Info(clusters) ==
            [c \in 1..Len(clusters) |->
                [cluster_id |-> c - 1,
                 size |-> Len(clusters[c]),
                 case_indices |-> clusters[c],
                 cases |-> [k \in 1..Len(clusters[c]) |->
                               generated_cases[clusters[c][k] + 1]]]]
        Result(clusters) ==
            [total_clusters |-> Len(clusters),
             cluster_info |-> Info(clusters),
             avg_cluster_size |->
                 Mean([c \in 1..Len(clusters) |-> RInt(Len(clusters[c]))])]
    IN  Result(semantic_clustering(generated_cases, threshold, provider))

-----------------------------------------------------------------------------
(* Evaluator (evaluator.py).  similarity_metric tells whether the          *)
(* constructor loaded the SimilarityModel: then the Evaluator has a         *)
(* SimilarityMetric and its UniquenessMetric uses the same model.           *)

METRIC_WEIGHTS ==
    [structure |-> Rat(2, 10), coverage |-> Rat(25, 100), quality |-> Rat(25, 100),
     similarity |-> Rat(2, 10), uniqueness |-> Rat(1, 10)]

score_mapping ==
    <<[score_key |-> "avg_structure_score", metric_name |-> "structure"],
      [score_key |-> "avg_quality_score", metric_name |-> "quality"],
      [score_key |-> "uniqueness_score", metric_name |-> "uniqueness"],
      [score_key |-> "coverage_score", metric_name |-> "coverage"],
      [score_key |-> "similarity_score", metric_name |-> "similarity"]>>

\* A faulty overall score that divides by the weights of all five metrics
_calculate_overall_score_all_weights(aggregate_scores) ==
    LET Counted(k) == score_mapping[k].score_key \in DOMAIN aggregate_scores
        total_score ==
            RSum([k \in 1..Len(score_mapping) |->
                    IF Counted(k)
                    THEN RMul(aggregate_scores[score_mapping[k].score_key],
                              METRIC_WEIGHTS[score_mapping[k].metric_name])
                    ELSE RZero])
        total_weight ==
            RSum([k \in 1..Len(score_mapping) |->
                    METRIC_WEIGHTS[score_mapping[k].metric_name]])
    IN  RDiv(total_score, total_weight)

_calculate_overall_score(aggregate_scores) ==
    LET Counted(k) ==
            /\ score_mapping[k].score_key \in DOMAIN aggregate_scores
            /\ score_mapping[k].metric_name \in DOMAIN METRIC_WEIGHTS
        total_score ==
            RSum([k \in 1..Len(score_mapping) |->
                    IF Counted(k)
                    THEN RMul(aggregate_scores[score_mapping[k].score_key],
                              METRIC_WEIGHTS[score_mapping[k].metric_name])
                    ELSE RZero])
        total_weight ==
            RSum([k \in 1..Len(score_mapping) |->
                    IF Counted(k) THEN METRIC_WEIGHTS[score_mapping[k].metric_name]
                    ELSE RZero])
        Overall(score, weight) == IF RLt(RZero, weight) THEN RDiv(score, weight) ELSE RZero
    IN  Overall(total_score, total_weight)

evaluate_single_case(test_case, case_index, other_cases) ==
    LET Report(structure, structure_eval, quality_eval) ==
            [case_index |-> case_index,
             case_text |-> test_case,
             structure |-> structure,
             structure_score |-> structure_eval.completeness_score,
             quality_score |-> quality_eval.overall_quality,
             quality_details |-> quality_eval,
             structure_details |-> structure_eval]
        Evaluate(structure) ==
            Report(structure, structure_evaluate(test_case),
                   quality_evaluate(test_case, structure, other_cases))
    IN  Evaluate(extract_structure(test_case))

\* A faulty evaluate_batch that runs the coverage metric also without a PRD
evaluate_batch_always_coverage(generated_cases, reference_cases, prd_text, similarity_metric, provider, order) ==
    LET with_coverage == TRUE
        with_similarity == reference_cases # <<>> /\ similarity_metric
        Report(individual_evaluations, aggregate_scores, detailed_analysis) ==
            [raised |-> FALSE,
             total_cases |-> Len(generated_cases),
             individual_evaluations |-> individual_evaluations,
             aggregate_scores |-> aggregate_scores,
             detailed_analysis |-> detailed_analysis,
             overall_score |-> _calculate_overall_score(aggregate_scores)]
        Aggregate(individual_evaluations, detailed_analysis) ==
            Report(individual_evaluations,
                   [avg_structure_score |->
                        Mean([i \in 1..Len(individual_evaluations) |->
                                 individual_evaluations[i].structure_score]),
                    avg_quality_score |->
                        Mean([i \in 1..Len(individual_evaluations) |->
                                 individual_evaluations[i].quality_score]),
                    uniqueness_score |-> detailed_analysis.uniqueness.diversity_score]
                   @@ (IF with_coverage
                       THEN [coverage_score |-> detailed_analysis.coverage.overall_coverage]
                       ELSE EmptyDict)
                   @@ (IF with_similarity
                       THEN [similarity_score |-> detailed_analysis.similarity.coverage_rate]
                       ELSE EmptyDict),
                   detailed_analysis)
        \* similarity_eval["coverage_rate"] of the error dict: KeyError
        Analysed(detailed_analysis) ==
            IF with_similarity
               /\ "coverage_rate" \notin DOMAIN detailed_analysis.similarity
            THEN [raised |-> TRUE, error |-> "KeyError"]
            ELSE Aggregate([i \in 1..Len(generated_cases) |->
                               evaluate_single_case(generated_cases[i], i - 1,
                                                    generated_cases)],
                           detailed_analysis)
    IN  Analysed([uniqueness |->
                      uniqueness_evaluate(generated_cases, similarity_metric, provider)]
                 @@ (IF with_coverage
                     THEN [coverage |-> coverage_evaluate(prd_text, generated_cases, order)]
                     ELSE EmptyDict)
                 @@ (IF with_similarity
                     THEN [similarity |->
                              evaluate_against_reference(generated_cases, reference_cases,
                                                         Rat(7, 10), provider)]
                     ELSE EmptyDict))

\* The report of evaluate_batch without its timestamp; raised: the call ended
\* in an exception instead of a report
evaluate_batch(generated_cases, reference_cases, prd_text, similarity_metric, provider, order) ==
    LET with_coverage == prd_text # <<>>
        with_similarity == reference_cases # <<>> /\ similarity_metric
        Report(individual_evaluations, aggregate_scores, detailed_analysis) ==
            [raised |-> FALSE,
             total_cases |-> Len(generated_cases),
             individual_evaluations |-> individual_evaluations,
             aggregate_scores |-> aggregate_scores,
             detailed_analysis |-> detailed_analysis,
             overall_score |-> _calculate_overall_score(aggregate_scores)]
        Aggregate(individual_evaluations, detailed_analysis) ==
            Report(individual_evaluations,
                   [avg_structure_score |->
                        Mean([i \in 1..Len(individual_evaluations) |->
                                 individual_evaluations[i].structure_score]),
                    avg_quality_score |->
                        Mean([i \in 1..Len(individual_evaluations) |->
                                 individual_evaluations[i].quality_score]),
                    uniqueness_score |-> detailed_analysis.uniqueness.diversity_score]
                   @@ (IF with_coverage
                       THEN [coverage_score |-> detailed_analysis.coverage.overall_coverage]
                       ELSE EmptyDict)
                   @@ (IF with_similarity
                       THEN [similarity_score |-> detailed_analysis.similarity.coverage_rate]
                       ELSE EmptyDict),
                   detailed_analysis)
        \* similarity_eval["coverage_rate"] of the error dict: KeyError
        Analysed(detailed_analysis) ==
            IF with_similarity
               /\ "coverage_rate" \notin DOMAIN detailed_analysis.similarity
            THEN [raised |-> TRUE, error |-> "KeyError"]
            ELSE Aggregate([i \in 1..Len(generated_cases) |->
                               evaluate_single_case(generated_cases[i], i - 1,
                                                    generated_cases)],
                           detailed_analysis)
    IN  Analysed([uniqueness |->
                      uniqueness_evaluate(generated_cases, similarity_metric, provider)]
                 @@ (IF with_coverage
                     THEN [coverage |-> coverage_evaluate(prd_text, generated_cases, order)]
                     ELSE EmptyDict)
                 @@ (IF with_similarity
                     THEN [similarity |->
                              evaluate_against_reference(generated_cases, reference_cases,
                                                         Rat(7, 10), provider)]
                     ELSE EmptyDict))

\* A faulty comparison whose regressions keep the sign of the difference
compare_versions_signed_regressions(version1_cases, version2_cases, reference_cases, prd_text, similarity_metric, provider, order) ==
    LET Shared(eval1, eval2) ==
            DOMAIN eval1.aggregate_scores \cap DOMAIN eval2.aggregate_scores
        Improvement(eval1, eval2, metric) ==
            RSub(eval2.aggregate_scores[metric], eval1.aggregate_scores[metric])
        Comparison(eval1, eval2) ==
            [raised |-> FALSE,
             version1 |-> eval1,
             version2 |-> eval2,
             improvements |->
                 [metric \in {m \in Shared(eval1, eval2) :
                                 RLt(RZero, Improvement(eval1, eval2, m))} |->
                     Improvement(eval1, eval2, metric)],
             regressions |->
                 [metric \in {m \in Shared(eval1, eval2) :
                                 RLt(Improvement(eval1, eval2, m), RZero)} |->
                     Improvement(eval1, eval2, metric)],
             overall_improvement |->
                 IF RLt(RZero, eval1.overall_score)
                 THEN RDiv(RSub(eval2.overall_score, eval1.overall_score),
                           eval1.overall_score)
                 ELSE RZero]
        Compare(eval1, eval2) ==
            IF eval1.raised THEN eval1
            ELSE IF eval2.raised THEN eval2
            ELSE Comparison(eval1, eval2)
        Evaluate(cases) ==
            evaluate_batch(cases, reference_cases, prd_text, similarity_metric,
                           provider, order)
    IN  Compare(Evaluate(version1_cases), Evaluate(version2_cases))

\* A faulty comparison whose overall improvement is the absolute difference
compare_versions_absolute_overall(version1_cases, version2_cases, reference_cases, prd_text, similarity_metric, provider, order) ==
    LET Shared(eval1, eval2) ==
            DOMAIN eval1.aggregate_scores \cap DOMAIN eval2.aggregate_scores
        Improvement(eval1, eval2, metric) ==
            RSub(eval2.aggregate_scores[metric], eval1.aggregate_scores[metric])
        Comparison(eval1, eval2) ==
            [raised |-> FALSE,
             version1 |-> eval1,
             version2 |-> eval2,
             improvements |->
                 [metric \in {m \in Shared(eval1, eval2) :
                                 RLt(RZero, Improvement(eval1, eval2, m))} |->
                     Improvement(eval1, eval2, metric)],
             regressions |->
                 [metric \in {m \in Shared(eval1, eval2) :
                                 RLt(Improvement(eval1, eval2, m), RZero)} |->
                     RSub(RZero, Improvement(eval1, eval2, metric))],
             overall_improvement |->
                 IF RLt(RZero, eval1.overall_score)
                 THEN RSub(eval2.overall_score, eval1.overall_score)
                 ELSE RZero]
        Compare(eval1, eval2) ==
            IF eval1.raised THEN eval1
            ELSE IF eval2.raised THEN eval2
            ELSE Comparison(eval1, eval2)
        Evaluate(cases) ==
            evaluate_batch(cases, reference_cases, prd_text, similarity_metric,
                           provider, order)
    IN  Compare(Evaluate(version1_cases), Evaluate(version2_cases))

compare_versions(version1_cases, version2_cases, reference_cases, prd_text, similarity_metric, provider, order) ==
    LET Shared(eval1, eval2) ==
            DOMAIN eval1.aggregate_scores \cap DOMAIN eval2.aggregate_scores
        Improvement(eval1, eval2, metric) ==
            RSub(eval2.aggregate_scores[metric], eval1.aggregate_scores[metric])
        Comparison(eval1, eval2) ==
            [raised |-> FALSE,
             version1 |-> eval1,
             version2 |-> eval2,
             improvements |->
                 [metric \in {m \in Shared(eval1, eval2) :
                                 RLt(RZero, Improvement(eval1, eval2, m))} |->
                     Improvement(eval1, eval2, metric)],
             regressions |->
                 [metric \in {m \in Shared(eval1, eval2) :
                                 RLt(Improvement(eval1, eval2, m), RZero)} |->
                     RSub(RZero, Improvement(eval1, eval2, metric))],
             overall_improvement |->
                 IF RLt(RZero, eval1.overall_score)
                 THEN RDiv(RSub(eval2.overall_score, eval1.overall_score),
                           eval1.overall_score)
                 ELSE RZero]
        Compare(eval1, eval2) ==
            IF eval1.raised THEN eval1
            ELSE IF eval2.raised THEN eval2
            ELSE Comparison(eval1, eval2)
        Evaluate(cases) ==
            evaluate_batch(cases, reference_cases, prd_text, similarity_metric,
                           provider, order)
    IN  Compare(Evaluate(version1_cases), Evaluate(version2_cases))

-----------------------------------------------------------------------------
(* Inputs of the calls                                                     *)

SeqsUpTo(S, n) == UNION {[1..k -> S] : k \in 0..n}

HashOrders == {"insertion", "reverse"}

\* "## Business Rules\n- user must log in with a valid account"
PRD_login ==
    <<"#", "#", " ", "B", "u", "s", "i", "n", "e", "s", "s", " ", "R", "u", "l", "e",
      "s", "\n", "-", " ", "u", "s", "e", "r", " ", "m", "u", "s", "t", " ", "l", "o",
      "g", " ", "i", "n", " ", "w", "i", "t", "h", " ", "a", " ", "v", "a", "l", "i",
      "d", " ", "a", "c", "c", "o", "u", "n", "t">>
\* "user must log in with a valid account"
REQ_login ==
    <<"u", "s", "e", "r", " ", "m", "u", "s", "t", " ", "l", "o", "g", " ", "i", "n",
      " ", "w", "i", "t", "h", " ", "a", " ", "v", "a", "l", "i", "d", " ", "a", "c",
      "c", "o", "u", "n", "t">>
\* "# Login\n## Steps\n- enter username\n- enter password\n## Expected\n- redirected to home"
CASE_login ==
    <<"#", " ", "L", "o", "g", "i", "n", "\n", "#", "#", " ", "S", "t", "e", "p", "s",
      "\n", "-", " ", "e", "n", "t", "e", "r", " ", "u", "s", "e", "r", "n", "a", "m",
      "e", "\n", "-", " ", "e", "n", "t", "e", "r", " ", "p", "a", "s", "s", "w", "o",
      "r", "d", "\n", "#", "#", " ", "E", "x", "p", "e", "c", "t", "e", "d", "\n",
      "-", " ", "r", "e", "d", "i", "r", "e", "c", "t", "e", "d", " ", "t", "o", " ",
      "h", "o", "m", "e">>
\* "release notes": no list item, no requirement sentence
PRD_prose ==
    <<"r", "e", "l", "e", "a", "s", "e", " ", "n", "o", "t", "e", "s">>
\* heading "rules" (U+89C4 U+5219), items "user login", "password error prompt"
PRD_rules ==
    <<"#", " ", "u89c4", "u5219", "\n", "-", " ", "u7528", "u6237", "u767b", "u5f55",
      "\n", "-", " ", "u5bc6", "u7801", "u9519", "u8bef", "u63d0", "u793a">>
\* "- pay order now"
PRD_pay ==
    <<"-", " ", "p", "a", "y", " ", "o", "r", "d", "e", "r", " ", "n", "o", "w">>
\* "- a b": its only requirement has no token longer than one character
PRD_short ==
    <<"-", " ", "a", " ", "b">>
\* "user login" (U+7528 U+6237 U+767B U+5F55)
REQ_userlogin ==
    <<"u7528", "u6237", "u767b", "u5f55">>
REQ_word ==
    <<"l", "o", "g", "i", "n">>
REQ_short ==
    <<"a", " ", "b">>
\* "user", "login", "success", separated by spaces
CASE_cn ==
    <<"u7528", "u6237", " ", "u767b", "u5f55", " ", "u6210", "u529f">>

\* Two requirement sentences: "<system> records logs." "<user> can log in."
PRD_sentences ==
    <<"u7cfb", "u7edf", "u8bb0", "u5f55", "u65e5", "u5fd7", "u3002", "u7528", "u6237",
      "u53ef", "u4ee5", "u767b", "u5f55", "u3002">>
\* A requirement sentence and a list item, no section heading:
\* "<user> can log in.\n- <supports export>"
PRD_mixed ==
    <<"u7528", "u6237", "u53ef", "u4ee5", "u767b", "u5f55", "u3002", "\n", "-", " ",
      "u652f", "u6301", "u5bfc", "u51fa">>
\* A requirement sentence before the section "functional requirements" with
\* one list item: "<user> must log in.\n## <functional requirements>\n- <supports export>"
PRD_intro ==
    <<"u7528", "u6237", "u9700", "u767b", "u5f55", "u3002", "\n", "#", "#", " ", "u529f",
      "u80fd", "u9700", "u6c42", "\n", "-", " ", "u652f", "u6301", "u5bfc", "u51fa">>

\* An ideographic run of 13 characters (23 different grams), one of 4
\* characters (5 grams) and "Login" with a run of 2 characters
SPAN_long ==
    <<"u8f93", "u5165", "u7528", "u6237", "u540d", "u548c", "u5bc6", "u7801", "u540e",
      "u70b9", "u51fb", "u767b", "u5f55">>
SPAN_short == <<"u767b", "u5f55", "u9875", "u9762">>
TEXT_mixed == <<"L", "o", "g", "i", "n", " ", "u767b", "u5f55">>
TokenTextPool == {SPAN_long, SPAN_short, TEXT_mixed, <<>>}

MaxCovCases == 2
MaxReqs == 2
PrdPool ==
    {PRD_login, PRD_prose, PRD_rules, PRD_pay, PRD_short, PRD_sentences, PRD_mixed, PRD_intro,
     <<>>}
ReqPool == {REQ_login, REQ_userlogin, REQ_word, REQ_short}
CovCasePool == {CASE_login, CASE_cn, <<>>}
Thresholds == {Rat(3, 10), Rat(5, 10)}

\* "abc def", the same with a space after it, "a" (no keyword), and
\* "login success" (U+767B U+5F55, U+6210 U+529F)
CASE_abc == <<"a", "b", "c", " ", "d", "e", "f">>
CASE_abc_padded == <<"a", "b", "c", " ", "d", "e", "f", " ">>
CASE_a == <<"a">>
CASE_success == <<"u767b", "u5f55", " ", "u6210", "u529f">>

MaxUniqCases == 3
MaxSimCases == 3
UniqCasePool == {CASE_abc, CASE_abc_padded, CASE_a, CASE_success}

\* What the embedding provider does during one call
NoProvider == [up |-> FALSE, sim |-> RZero, apart |-> {}, low |-> RZero]
Providers ==
    {NoProvider,
     [up |-> TRUE, sim |-> Rat(3, 10), apart |-> {}, low |-> RZero],
     [up |-> TRUE, sim |-> Rat(9, 10), apart |-> {}, low |-> RZero]}
\* A metric without a SimilarityModel never reaches the provider
ProvidersOf(similarity_model) == IF similarity_model THEN Providers ELSE {NoProvider}

Idle == [op |-> "none"]
NoResult == [raised |-> FALSE]

\* The caller is done with the result of the last call.
Return ==
    /\ call # Idle
    /\ call' = Idle
    /\ ret' = NoResult
    /\ UNCHANGED <<similarity_loaded, hash_order>>

-----------------------------------------------------------------------------
(* The calls of CoverageMetric                                             *)

CallExtractRequirements ==
    /\ call = Idle
    /\ \E prd \in PrdPool :
          /\ call' = [op |-> "extract_requirements", prd_text |-> prd]
          /\ ret' = [raised |-> FALSE, requirements |-> extract_requirements(prd)]
    /\ UNCHANGED <<similarity_loaded, hash_order>>

CallCalculateRequirementCoverage ==
    /\ call = Idle
    /\ \E reqs \in SeqsUpTo(ReqPool, MaxReqs), cases \in SeqsUpTo(CovCasePool, MaxCovCases),
          th \in Thresholds :
          /\ call' = [op |-> "calculate_requirement_coverage", requirements |-> reqs,
                      test_cases |-> cases, similarity_threshold |-> th]
          /\ ret' = [raised |-> FALSE] @@
                    calculate_requirement_coverage(reqs, cases, th, hash_order)
    /\ UNCHANGED <<similarity_loaded, hash_order>>

CallCoverageEvaluate ==
    /\ call = Idle
    /\ \E prd \in PrdPool, cases \in SeqsUpTo(CovCasePool, MaxCovCases) :
          /\ call' = [op |-> "coverage_evaluate", prd_text |-> prd, test_cases |-> cases]
          /\ ret' = [raised |-> FALSE] @@ coverage_evaluate(prd, cases, hash_order)
    /\ UNCHANGED <<similarity_loaded, hash_order>>

CallSplitTokens ==
    /\ call = Idle
    /\ \E text \in TokenTextPool :
          /\ call' = [op |-> "_split_tokens", text |-> text]
          /\ ret' = [raised |-> FALSE, tokens |-> _split_tokens(text, hash_order)]
    /\ UNCHANGED <<similarity_loaded, hash_order>>

\* "fill in" and "password", two words
TEXT_fill == <<"u586b", "u5199", " ", "u5bc6", "u7801">>

\* The texts whose keywords are extracted: the requirements and cases of the
\* pools and a step that uses the synonym of a case-side stop word
KeywordTextPool == ReqPool \cup CovCasePool \cup {TEXT_fill}

CallExtractKeywordsFromRequirement ==
    /\ call = Idle
    /\ \E requirement \in KeywordTextPool :
          /\ call' = [op |-> "extract_keywords_from_requirement",
                      requirement |-> requirement]
          /\ ret' = [raised |-> FALSE,
                     tokens |-> extract_keywords_from_requirement(requirement,
                                                                  hash_order)]
    /\ UNCHANGED <<similarity_loaded, hash_order>>

CallExtractKeywordsFromTestCase ==
    /\ call = Idle
    /\ \E test_case \in KeywordTextPool :
          /\ call' = [op |-> "extract_keywords_from_test_case", test_case |-> test_case]
          /\ ret' = [raised |-> FALSE,
                     tokens |-> extract_keywords_from_test_case(test_case, hash_order)]
    /\ UNCHANGED <<similarity_loaded, hash_order>>

InitCov ==
    /\ similarity_loaded = FALSE
    /\ hash_order \in HashOrders
    /\ call = Idle
    /\ ret = NoResult

NextCov ==
    \/ CallExtractRequirements
    \/ CallCalculateRequirementCoverage
    \/ CallCoverageEvaluate
    \/ CallSplitTokens
    \/ CallExtractKeywordsFromRequirement
    \/ CallExtractKeywordsFromTestCase
    \/ Return

SpecCov == InitCov /\ [][NextCov]_vars

-----------------------------------------------------------------------------
(* The calls of UniquenessMetric.  similarity_loaded says whether the      *)
(* metric was given a SimilarityModel.                                     *)

CallDetectExactDuplicates ==
    /\ call = Idle
    /\ \E cases \in SeqsUpTo(UniqCasePool, MaxUniqCases) :
          /\ call' = [op |-> "detect_exact_duplicates", test_cases |-> cases]
          /\ ret' = [raised |-> FALSE, value |-> detect_exact_duplicates(cases)]
    /\ UNCHANGED <<similarity_loaded, hash_order>>

CallCalculateDiversityScore ==
    /\ call = Idle
    /\ \E cases \in SeqsUpTo(UniqCasePool, MaxUniqCases),
          provider \in ProvidersOf(similarity_loaded) :
          /\ call' = [op |-> "calculate_diversity_score", test_cases |-> cases,
                      provider |-> provider]
          /\ ret' = [raised |-> FALSE,
                     value |-> calculate_diversity_score(cases, similarity_loaded, provider)]
    /\ UNCHANGED <<similarity_loaded, hash_order>>

CallUniquenessEvaluate ==
    /\ call = Idle
    /\ \E cases \in SeqsUpTo(UniqCasePool, MaxUniqCases),
          provider \in ProvidersOf(similarity_loaded) :
          /\ call' = [op |-> "uniqueness_evaluate", test_cases |-> cases,
                      provider |-> provider]
          /\ ret' = [raised |-> FALSE] @@
                    uniqueness_evaluate(cases, similarity_loaded, provider)
    /\ UNCHANGED <<similarity_loaded, hash_order>>

\* The scores handed to _get_quality_level: the twentieths of the unit interval,
\* which hold every threshold of both scorers (0.5, 0.6, 0.7, 0.75, 0.85, 0.9).
ScoreSteps == 20
ScoreGrid == {Rat(k, ScoreSteps) : k \in 0..ScoreSteps}

CallUniquenessGetQualityLevel ==
    /\ call = Idle
    /\ \E diversity_score \in ScoreGrid, deduplication_rate \in ScoreGrid :
          /\ call' = [op |-> "uniqueness_get_quality_level",
                      diversity_score |-> diversity_score,
                      deduplication_rate |-> deduplication_rate]
          /\ ret' = [raised |-> FALSE,
                     value |-> uniqueness_get_quality_level(diversity_score,
                                                            deduplication_rate)]
    /\ UNCHANGED <<similarity_loaded, hash_order>>

InitUniq ==
    /\ similarity_loaded \in BOOLEAN
    /\ hash_order = "insertion"
    /\ call = Idle
    /\ ret = NoResult

NextUniq ==
    \/ CallDetectExactDuplicates
    \/ CallCalculateDiversityScore
    \/ CallUniquenessEvaluate
    \/ CallUniquenessGetQualityLevel
    \/ Return

SpecUniq == InitUniq /\ [][NextUniq]_vars

-----------------------------------------------------------------------------
(* Properties of UniquenessMetric                                          *)

\* The cases of a batch are all the same string
AllIdentical(test_cases) ==
    \A k \in 1..Len(test_cases) : test_cases[k] = test_cases[1]

\* C4: for a batch of exactly two identical strings, evaluate reports
\* exact_duplicate_count = 1, near_duplicate_count = 0 and diversity_score = 0.
C4_TwoIdenticalCases ==
    (/\ call.op = "uniqueness_evaluate"
     /\ Len(call.test_cases) = 2
     /\ call.test_cases[1] = call.test_cases[2])
    => /\ ret.exact_duplicate_count = 1
       /\ ret.near_duplicate_count = 0
       /\ ret.diversity_score = RZero

\* C5: a batch of n >= 2 identical non-empty strings has exactly n(n-1)/2
\* exact-duplicate pairs and diversity_score 0; a batch of one case and the
\* empty batch have diversity_score 1.
C5_IdenticalBatch ==
    LET n == Len(call.test_cases)
        identical == n >= 2 /\ AllIdentical(call.test_cases) /\ call.test_cases[1] # <<>>
    IN  /\ call.op = "detect_exact_duplicates" /\ identical
            => Cardinality(ret.value) = (n * (n - 1)) \div 2
        /\ call.op = "calculate_diversity_score"
            => /\ identical => ret.value = RZero
               /\ n <= 1 => ret.value = ROne
        /\ call.op = "uniqueness_evaluate"
            => /\ identical => /\ ret.exact_duplicate_count = (n * (n - 1)) \div 2
                               /\ ret.diversity_score = RZero
               /\ n <= 1 => ret.diversity_score = ROne

\* C5 happens: an evaluation of three identical non-empty cases whose pairs
\* are near duplicates too, so that the duplicate rate is above 1.
C5_Witness ==
    /\ call.op = "uniqueness_evaluate"
    /\ Len(call.test_cases) = 3
    /\ AllIdentical(call.test_cases)
    /\ call.test_cases[1] # <<>>
    /\ ret.exact_duplicate_count = 3
    /\ ret.near_duplicate_count = 3
    /\ ret.diversity_score = RZero

\* C6: the deduplication_rate that evaluate returns lies in [0, 1].
C6_DeduplicationRateInUnit ==
    call.op = "uniqueness_evaluate" => InUnit(ret.deduplication_rate)

-----------------------------------------------------------------------------
(* Properties of CoverageMetric                                            *)

\* x / y >= th for a ratio of two counts, false when there is nothing to
\* divide by
AtLeast(x, y, th) == y > 0 /\ x * th[2] >= th[1] * y

\* Some case's keyword set K has max(Jaccard(R,K), |R&K|/|R|, |R&K|/|K|) >= th
SomeCaseReaches(R, test_cases, th, order) ==
    \E j \in 1..Len(test_cases) :
        LET K == extract_keywords_from_test_case(test_cases[j], order)
            c == Cardinality(R \cap K)
        IN  \/ AtLeast(c, Cardinality(R \cup K), th)
            \/ AtLeast(c, Cardinality(R), th)
            \/ AtLeast(c, Cardinality(K), th)

\* The requirements of a call that some case reaches
Reached(requirements, test_cases, th, order) ==
    {i \in 1..Len(requirements) :
        SomeCaseReaches(extract_keywords_from_requirement(requirements[i], order),
                        test_cases, th, order)}

\* C8: calculate_requirement_coverage reports a requirement R covered if and
\* only if some case's keyword set K satisfies
\* max(Jaccard(R,K), |R&K|/|R|, |R&K|/|K|) >= threshold, and its coverage_rate
\* is the number of covered requirements divided by the number of requirements.
C8_CoveredIffSomeCaseReaches ==
    call.op = "calculate_requirement_coverage" =>
        LET hit == Reached(call.requirements, call.test_cases,
                           call.similarity_threshold, hash_order)
            n == Len(call.requirements)
        IN  /\ ret.covered_requirements = SubseqAt(call.requirements, hit)
            /\ ret.uncovered_requirements = SubseqAt(call.requirements, (1..n) \ hit)
            /\ ret.covered_count = Cardinality(hit)
            /\ n > 0 => ret.coverage_rate = Rat(Cardinality(hit), n)

\* C8 happens: a call with two requirements, one covered by a case whose
\* Jaccard similarity alone is below the threshold, the other uncovered.
C8_Witness ==
    /\ call.op = "calculate_requirement_coverage"
    /\ ret.covered_count = 1
    /\ ret.uncovered_count = 1
    /\ \A j \in 1..Len(call.test_cases) :
          LET R == extract_keywords_from_requirement(ret.covered_requirements[1], hash_order)
              K == extract_keywords_from_test_case(call.test_cases[j], hash_order)
          IN  ~AtLeast(Cardinality(R \cap K), Cardinality(R \cup K),
                       call.similarity_threshold)

\* C9: a text with no extractable requirement has requirement coverage_rate 1
\* for every batch; a text whose only requirement shares no keyword with any
\* case of the batch has coverage_rate 0.
C9_VacuousAndDisjoint ==
    call.op = "coverage_evaluate" =>
        LET requirements == extract_requirements(call.prd_text)
            rate == ret.requirement_coverage.coverage_rate
            Disjoint(R) ==
                \A j \in 1..Len(call.test_cases) :
                    R \cap extract_keywords_from_test_case(call.test_cases[j], hash_order)
                        = {}
        IN  /\ Len(requirements) = 0 => rate = ROne
            /\ (/\ Len(requirements) = 1
                /\ Disjoint(extract_keywords_from_requirement(requirements[1], hash_order)))
               => rate = RZero

\* C9 happens: an evaluation of a text with one requirement that has keywords,
\* against a batch whose cases all have keywords, none of them shared.
C9_Witness ==
    /\ call.op = "coverage_evaluate"
    /\ ret.requirements_extracted = 1
    /\ Len(call.test_cases) >= 1
    /\ LET R == extract_keywords_from_requirement(
                    extract_requirements(call.prd_text)[1], hash_order)
       IN  /\ R # {}
           /\ \A j \in 1..Len(call.test_cases) :
                 LET K == extract_keywords_from_test_case(call.test_cases[j], hash_order)
                 IN  K # {} /\ R \cap K = {}
    /\ ret.requirement_coverage.coverage_rate = RZero

\* C10: for the text PRD_login and the batch of the single case CASE_login,
\* exactly one requirement, REQ_login, is extracted and the requirement
\* coverage_rate is greater than 0 at the configured threshold.
C10_LoginExampleCovered ==
    (/\ call.op = "coverage_evaluate"
     /\ call.prd_text = PRD_login
     /\ call.test_cases = <<CASE_login>>)
    => /\ extract_requirements(call.prd_text) = <<REQ_login>>
       /\ ret.requirements_extracted = 1
       /\ ret.requirement_coverage.threshold_used = requirement_overlap_threshold
       /\ RLt(RZero, ret.requirement_coverage.coverage_rate)

-----------------------------------------------------------------------------
(* Evaluator calls                                                         *)

\* A case with a title, a precondition, three numbered steps and an expected
\* result, each long enough for the best structure score
CASE_full ==
    <<"u6807", "u9898", "uff1a", "u7528", "u6237", "u767b", "u5f55", "u529f", "u80fd",
      "u6d4b", "u8bd5", "\n", "u524d", "u7f6e", "u6761", "u4ef6", "uff1a", "u7528",
      "u6237", "u5df2", "u6ce8", "u518c", "uff0c", "u4e14", "u8d26", "u53f7", "u72b6",
      "u6001", "u6b63", "u5e38", "u53ef", "u7528", "\n", "u64cd", "u4f5c", "u6b65",
      "u9aa4", "uff1a", "\n", "1", ".", " ", "u6253", "u5f00", "u767b", "u5f55",
      "u9875", "u9762", "\n", "2", ".", " ", "u8f93", "u5165", "u7528", "u6237",
      "u540d", "u548c", "u5bc6", "u7801", "\n", "3", ".", " ", "u70b9", "u51fb", "\"",
      "u767b", "u5f55", "\"", "u6309", "u94ae", "uff0c", "u63d0", "u4ea4", "u8868",
      "u5355", "u540e", "u7b49", "u5f85", "u9875", "u9762", "u54cd", "u5e94", "\n",
      "u9884", "u671f", "u7ed3", "u679c", "uff1a", "u767b", "u5f55", "u6210", "u529f",
      "uff0c", "u9875", "u9762", "u8df3", "u8f6c", "u5230", "u9996", "u9875", "u5e76",
      "u663e", "u793a", "u7528", "u6237", "u540d">>
\* A functional-requirements section with two list items
PRD_account ==
    <<"#", "#", " ", "u529f", "u80fd", "u9700", "u6c42", "\n", "-", " ", "u7528",
      "u6237", "u5fc5", "u987b", "u4f7f", "u7528", "u6709", "u6548", "u8d26", "u53f7",
      "u767b", "u5f55", "\n", "-", " ", "u652f", "u6301", " ", "u5bc6", "u7801", " ",
      "u767b", "u5f55", " ", "u9996", "u9875">>

MaxCases == 2
EvalCasePool == {CASE_full, CASE_login, CASE_a}
ReferencePool == {<<>>, <<CASE_login>>}
EvalPrdPool == {<<>>, PRD_account}
\* The two versions compare_versions is given
VersionPool == {<<>>, <<CASE_login>>, <<CASE_full>>, <<CASE_a, CASE_a>>}

CallEvaluateBatch ==
    /\ call = Idle
    /\ \E generated_cases \in SeqsUpTo(EvalCasePool, MaxCases),
          reference_cases \in ReferencePool,
          prd_text \in EvalPrdPool,
          provider \in ProvidersOf(similarity_loaded) :
          /\ call' = [op |-> "evaluate_batch", generated_cases |-> generated_cases,
                      reference_cases |-> reference_cases, prd_text |-> prd_text,
                      provider |-> provider]
          /\ ret' = evaluate_batch(generated_cases, reference_cases, prd_text,
                                   similarity_loaded, provider, hash_order)
    /\ UNCHANGED <<similarity_loaded, hash_order>>

CallCompareVersions ==
    /\ call = Idle
    /\ \E version1_cases \in VersionPool, version2_cases \in VersionPool,
          reference_cases \in ReferencePool,
          prd_text \in EvalPrdPool,
          provider \in ProvidersOf(similarity_loaded) :
          /\ call' = [op |-> "compare_versions", version1_cases |-> version1_cases,
                      version2_cases |-> version2_cases,
                      reference_cases |-> reference_cases, prd_text |-> prd_text,
                      provider |-> provider]
          /\ ret' = compare_versions(version1_cases, version2_cases, reference_cases,
                                     prd_text, similarity_loaded, provider, hash_order)
    /\ UNCHANGED <<similarity_loaded, hash_order>>

Init ==
    /\ similarity_loaded \in BOOLEAN
    /\ hash_order \in HashOrders
    /\ call = Idle
    /\ ret = NoResult

Next ==
    \/ CallEvaluateBatch
    \/ CallCompareVersions
    \/ Return

Spec == Init /\ [][Next]_vars

-----------------------------------------------------------------------------
(* Properties of Evaluator                                                 *)

ScoreKeys ==
    <<"avg_structure_score", "avg_quality_score", "uniqueness_score", "coverage_score",
      "similarity_score">>
\* The weight the specification gives to the metric behind each score
WeightOf ==
    [avg_structure_score |-> Rat(2, 10), coverage_score |-> Rat(25, 100),
     avg_quality_score |-> Rat(25, 100), similarity_score |-> Rat(2, 10),
     uniqueness_score |-> Rat(1, 10)]
\* sum(weight_m) and sum(score_m * weight_m) over the metrics of scores
WeightSum(scores) ==
    RSum([k \in 1..Len(ScoreKeys) |->
            IF ScoreKeys[k] \in DOMAIN scores THEN WeightOf[ScoreKeys[k]] ELSE RZero])
WeightedSum(scores) ==
    RSum([k \in 1..Len(ScoreKeys) |->
            IF ScoreKeys[k] \in DOMAIN scores
            THEN RMul(scores[ScoreKeys[k]], WeightOf[ScoreKeys[k]])
            ELSE RZero])

\* C1: the overall_score of evaluate_batch is sum(score_m * weight_m) /
\* sum(weight_m) over exactly the metrics present in aggregate_scores, with the
\* weights structure 0.2, coverage 0.25, quality 0.25, similarity 0.2,
\* uniqueness 0.1; without a PRD and without reference cases it is
\* (structure * 0.2 + quality * 0.25 + uniqueness * 0.1) / 0.55.
C1_OverallIsWeightedMeanOfPresent ==
    (call.op = "evaluate_batch" /\ ~ret.raised) =>
        /\ DOMAIN ret.aggregate_scores \subseteq Range(ScoreKeys)
        /\ ret.overall_score =
               RDiv(WeightedSum(ret.aggregate_scores), WeightSum(ret.aggregate_scores))
        /\ (call.prd_text = <<>> /\ call.reference_cases = <<>>) =>
               ret.overall_score =
                   RDiv(RAdd(RAdd(RMul(ret.aggregate_scores.avg_structure_score, Rat(2, 10)),
                                  RMul(ret.aggregate_scores.avg_quality_score, Rat(25, 100))),
                             RMul(ret.aggregate_scores.uniqueness_score, Rat(1, 10))),
                        Rat(55, 100))

\* C1 happens: a batch of two cases evaluated without PRD and without
\* reference cases, whose three scores differ from each other.
C1_Witness ==
    /\ call.op = "evaluate_batch"
    /\ ~ret.raised
    /\ call.prd_text = <<>>
    /\ call.reference_cases = <<>>
    /\ Len(call.generated_cases) = 2
    /\ DOMAIN ret.aggregate_scores =
          {"avg_structure_score", "avg_quality_score", "uniqueness_score"}
    /\ ret.aggregate_scores.avg_structure_score # ret.aggregate_scores.avg_quality_score
    /\ ret.aggregate_scores.avg_quality_score # ret.aggregate_scores.uniqueness_score
    /\ ret.aggregate_scores.avg_structure_score # ret.aggregate_scores.uniqueness_score
    /\ RLt(RZero, ret.overall_score)

\* C2: when the Evaluator has a SimilarityMetric, reference cases are given
\* and the provider's encode fails during evaluate_batch, evaluate_batch does
\* not raise; its report leaves the similarity metric out of aggregate_scores
\* and its overall_score is computed from the remaining scores.
C2_ProviderFailureIsDegraded ==
    (/\ call.op = "evaluate_batch"
     /\ similarity_loaded
     /\ call.reference_cases # <<>>
     /\ ~call.provider.up)
    => /\ ~ret.raised
       /\ "similarity_score" \notin DOMAIN ret.aggregate_scores
       /\ {"avg_structure_score", "avg_quality_score", "uniqueness_score"}
             \subseteq DOMAIN ret.aggregate_scores
       /\ ("coverage_score" \in DOMAIN ret.aggregate_scores) = (call.prd_text # <<>>)
       /\ ret.overall_score =
              RDiv(WeightedSum(ret.aggregate_scores), WeightSum(ret.aggregate_scores))

\* C3: for two batches A and B compared with the same reference cases and
\* PRD, the improvements of compare_versions(A, B) are the regressions of
\* compare_versions(B, A): the same metrics with the same magnitudes.
C3_ImprovementsMirrorRegressions ==
    (call.op = "compare_versions" /\ ~ret.raised) =>
        ret.improvements =
            compare_versions(call.version2_cases, call.version1_cases,
                             call.reference_cases, call.prd_text, similarity_loaded,
                             call.provider, hash_order).regressions

\* C3 happens: a comparison in which one metric improved and another one
\* regressed.
C3_Witness ==
    /\ call.op = "compare_versions"
    /\ ~ret.raised
    /\ DOMAIN ret.improvements # {}
    /\ DOMAIN ret.regressions # {}

\* C7: every per-case structure_score and quality_score, each of the five
\* quality sub-scores, every value of aggregate_scores and the overall_score
\* of evaluate_batch lie in [0, 1].
C7_ScoresInUnit ==
    (call.op = "evaluate_batch" /\ ~ret.raised) =>
        /\ \A i \in 1..Len(ret.individual_evaluations) :
              /\ InUnit(ret.individual_evaluations[i].structure_score)
              /\ InUnit(ret.individual_evaluations[i].quality_score)
              /\ InUnit(ret.individual_evaluations[i].quality_details.clarity_score)
              /\ InUnit(ret.individual_evaluations[i].quality_details.completeness_score)
              /\ InUnit(ret.individual_evaluations[i].quality_details.executability_score)
              /\ InUnit(ret.individual_evaluations[i].quality_details.independence_score)
              /\ InUnit(ret.individual_evaluations[i].quality_details.specificity_score)
        /\ \A key \in DOMAIN ret.aggregate_scores : InUnit(ret.aggregate_scores[key])
        /\ InUnit(ret.overall_score)

\* C7 happens: a batch of two equal, fully structured cases evaluated with a
\* PRD and reference cases: all five scores are present, the structure score
\* is 1 and the uniqueness score is 0.
C7_Witness ==
    /\ call.op = "evaluate_batch"
    /\ ~ret.raised
    /\ Len(call.generated_cases) = 2
    /\ DOMAIN ret.aggregate_scores = Range(ScoreKeys)
    /\ ret.aggregate_scores.avg_structure_score = ROne
    /\ ret.aggregate_scores.uniqueness_score = RZero

\* The batch without its element i
Siblings(cases, i) == SubseqAt(cases, (1..Len(cases)) \ {i})

\* C14: in evaluate_batch the independence sub-score of case i is computed
\* against the batch with element i removed, so the case is never compared
\* with itself; a batch of a single case has independence_score 1.
C14_SiblingsExcludeSelf ==
    (call.op = "evaluate_batch" /\ ~ret.raised) =>
        \A i \in 1..Len(call.generated_cases) :
            ret.individual_evaluations[i].quality_details.independence_score =
                check_independence(call.generated_cases[i],
                                   Siblings(call.generated_cases, i))

\* C17: evaluate_batch always puts avg_structure_score, avg_quality_score and
\* uniqueness_score in aggregate_scores; coverage_score is there if and only
\* if a non-empty prd_text was given, similarity_score if and only if
\* non-empty reference_cases were given and the Evaluator has a
\* SimilarityMetric.
C17_AggregateKeys ==
    (call.op = "evaluate_batch" /\ ~ret.raised) =>
        /\ {"avg_structure_score", "avg_quality_score", "uniqueness_score"}
              \subseteq DOMAIN ret.aggregate_scores
        /\ DOMAIN ret.aggregate_scores \subseteq Range(ScoreKeys)
        /\ ("coverage_score" \in DOMAIN ret.aggregate_scores) <=> (call.prd_text # <<>>)
        /\ ("similarity_score" \in DOMAIN ret.aggregate_scores)
              <=> (call.reference_cases # <<>> /\ similarity_loaded)

\* C17 happens: a batch evaluated with a PRD and with reference cases by an
\* Evaluator without SimilarityMetric: coverage is scored, similarity is not.
C17_Witness ==
    /\ call.op = "evaluate_batch"
    /\ ~ret.raised
    /\ call.generated_cases # <<>>
    /\ call.prd_text # <<>>
    /\ call.reference_cases # <<>>
    /\ ~similarity_loaded
    /\ DOMAIN ret.aggregate_scores =
          {"avg_structure_score", "avg_quality_score", "uniqueness_score", "coverage_score"}

\* C18: in compare_versions(A, B), a metric of both aggregate-score maps with
\* scoreB > scoreA is in improvements with scoreB - scoreA and not in
\* regressions; with scoreB < scoreA it is in regressions with
\* scoreA - scoreB and not in improvements; with equal scores it is in
\* neither.  overall_improvement is (overallB - overallA) / overallA, and 0
\* when overallA is 0.
C18_ImprovementsAndRegressions ==
    (call.op = "compare_versions" /\ ~ret.raised) =>
        LET scoreA == ret.version1.aggregate_scores
            scoreB == ret.version2.aggregate_scores
        IN  /\ DOMAIN ret.improvements \subseteq DOMAIN scoreA \cap DOMAIN scoreB
            /\ DOMAIN ret.regressions \subseteq DOMAIN scoreA \cap DOMAIN scoreB
            /\ \A metric \in DOMAIN scoreA \cap DOMAIN scoreB :
                  /\ RLt(scoreA[metric], scoreB[metric]) =>
                        /\ metric \in DOMAIN ret.improvements
                        /\ metric \notin DOMAIN ret.regressions
                        /\ ret.improvements[metric] = RSub(scoreB[metric], scoreA[metric])
                  /\ RLt(scoreB[metric], scoreA[metric]) =>
                        /\ metric \in DOMAIN ret.regressions
                        /\ metric \notin DOMAIN ret.improvements
                        /\ ret.regressions[metric] = RSub(scoreA[metric], scoreB[metric])
                  /\ scoreA[metric] = scoreB[metric] =>
                        /\ metric \notin DOMAIN ret.improvements
                        /\ metric \notin DOMAIN ret.regressions
            /\ ret.overall_improvement =
                  IF ret.version1.overall_score = RZero THEN RZero
                  ELSE RDiv(RSub(ret.version2.overall_score, ret.version1.overall_score),
                            ret.version1.overall_score)

\* C18 happens: a comparison with an improved metric, a regressed metric, a
\* metric with equal scores and an overall improvement that is not 0.
C18_Witness ==
    /\ call.op = "compare_versions"
    /\ ~ret.raised
    /\ \E a, b, c \in DOMAIN ret.version1.aggregate_scores \cap
                        DOMAIN ret.version2.aggregate_scores :
          /\ a \in DOMAIN ret.improvements
          /\ b \in DOMAIN ret.regressions
          /\ ret.version1.aggregate_scores[c] = ret.version2.aggregate_scores[c]
    /\ ret.overall_improvement # RZero
    /\ ret.version1.overall_score # ROne

-----------------------------------------------------------------------------
(* The calls of StructureMetric.extract_structure: texts of up to MaxLines  *)
(* lines                                                                   *)

\* "Title a", "<step>1", "<operate> b", " <result> ok", "x " and the empty line
LINE_title == <<"T", "i", "t", "l", "e", " ", "a">>
LINE_steps == <<"u6b65", "u9aa4", "1">>
LINE_action == <<"u64cd", "u4f5c", " ", "b">>
LINE_expected == <<" ", "u7ed3", "u679c", " ", "o", "k">>
LINE_plain == <<"x", " ">>
LINE_blank == <<>>

MaxLines == 4
LinePool == {LINE_title, LINE_steps, LINE_action, LINE_expected, LINE_plain, LINE_blank}

CallExtractStructure ==
    /\ call = Idle
    /\ \E lines \in SeqsUpTo(LinePool, MaxLines) :
          /\ call' = [op |-> "extract_structure", test_case |-> join(lines)]
          /\ ret' = [raised |-> FALSE, structure |-> extract_structure(join(lines))]
    /\ UNCHANGED <<similarity_loaded, hash_order>>

\* Section contents as extract_structure returns them: the heading line of the
\* section followed by the lines it collects.
\* 6 characters
TITLE_short == <<"u6807", "u9898", ":", " ", "u767b", "u5f55">>
\* 10 characters
TITLE_good == <<"u6807", "u9898", ":", " ", "u7528", "u6237", "u767b", "u5f55", "u6210",
    "u529f">>
\* 54 characters
TITLE_long == <<"u6807", "u9898", ":", " ", "u7528", "u6237", "u4f7f", "u7528", "u6b63", "u786e",
    "u7684", "u8d26", "u53f7", "u548c", "u5bc6", "u7801", "u767b", "u5f55", "u7cfb", "u7edf",
    "\n", "u767b", "u5f55", "u6210", "u529f", "u540e", "u9875", "u9762", "u8df3", "u8f6c",
    "u5230", "u9996", "u9875", "u5e76", "u663e", "u793a", "u7528", "u6237", "u7684", "u6635",
    "u79f0", "u548c", "u5934", "u50cf", "u4fe1", "u606f", "u4ee5", "u53ca", "u4e0a", "u6b21",
    "u767b", "u5f55", "u65f6", "u95f4">>
\* 7 characters
PRE_short == <<"u524d", "u7f6e", "u6761", "u4ef6", ":", " ", "u65e0">>
\* 22 characters
PRE_long == <<"u524d", "u7f6e", "u6761", "u4ef6", ":", " ", "u7528", "u6237", "u5df2", "u6ce8",
    "u518c", "u8d26", "u53f7", "u5e76", "u4e14", "u5904", "u4e8e", "u672a", "u767b", "u5f55",
    "u72b6", "u6001">>
\* 51 characters
STEPS_numbered == <<"u64cd", "u4f5c", "u6b65", "u9aa4", ":", "\n", "1", ".", " ", "u6253",
    "u5f00", "u767b", "u5f55", "u9875", "u5e76", "u8f93", "u5165", "u5df2", "u6ce8", "u518c",
    "u7684", "u8d26", "u53f7", "u548c", "u5bf9", "u5e94", "u7684", "u5bc6", "u7801", "\n", "2",
    ".", " ", "u70b9", "u51fb", "u767b", "u5f55", "u6309", "u94ae", "u5e76", "u7b49", "u5f85",
    "u9875", "u9762", "u81ea", "u52a8", "u8df3", "u8f6c", "u5230", "u9996", "u9875">>
\* 51 characters
STEPS_dashed == <<"u64cd", "u4f5c", "u6b65", "u9aa4", ":", "\n", "-", " ", "u6253", "u5f00",
    "u767b", "u5f55", "u9875", "u5e76", "u8f93", "u5165", "u5df2", "u6ce8", "u518c", "u7684",
    "u8d26", "u53f7", "u548c", "u5bf9", "u5e94", "u7684", "u5bc6", "u7801", "\n", "-", " ",
    "u70b9", "u51fb", "u767b", "u5f55", "u6309", "u94ae", "u5e76", "u7b49", "u5f85", "u9875",
    "u9762", "u81ea", "u52a8", "u8df3", "u8f6c", "u5230", "u9996", "u9875", "u663e", "u793a">>
\* 31 characters
STEPS_one == <<"u64cd", "u4f5c", "u6b65", "u9aa4", ":", "\n", "1", ".", " ", "u6253", "u5f00",
    "u767b", "u5f55", "u9875", "u5e76", "u8f93", "u5165", "u8d26", "u53f7", "u548c", "u5bc6",
    "u7801", "u540e", "u70b9", "u51fb", "u767b", "u5f55", "u6309", "u94ae", "u63d0", "u4ea4">>
\* 31 characters
STEPS_plain == <<"u64cd", "u4f5c", "u6b65", "u9aa4", ":", " ", "u6253", "u5f00", "u767b",
    "u5f55", "u9875", "u5e76", "u8f93", "u5165", "u8d26", "u53f7", "u548c", "u5bc6", "u7801",
    "u540e", "u70b9", "u51fb", "u767b", "u5f55", "u6309", "u94ae", "u5e76", "u63d0", "u4ea4",
    "u8868", "u5355">>
\* 10 characters
STEPS_tiny == <<"u64cd", "u4f5c", "u6b65", "u9aa4", ":", " ", "u70b9", "u51fb", "u767b",
    "u5f55">>
\* 8 characters
EXP_short == <<"u9884", "u671f", "u7ed3", "u679c", ":", " ", "u6210", "u529f">>
\* 23 characters
EXP_long == <<"u9884", "u671f", "u7ed3", "u679c", ":", " ", "u767b", "u5f55", "u6210", "u529f",
    "u5e76", "u4e14", "u9875", "u9762", "u8df3", "u8f6c", "u5230", "u9996", "u9875", "u663e",
    "u793a", "u6635", "u79f0">>

StructurePool ==
    {[title |-> t, precondition |-> p, steps |-> s, expected_result |-> e] :
        t \in {<<>>, TITLE_short, TITLE_good, TITLE_long},
        p \in {<<>>, PRE_short, PRE_long},
        s \in {<<>>, STEPS_numbered, STEPS_dashed, STEPS_one, STEPS_plain, STEPS_tiny},
        e \in {<<>>, EXP_short, EXP_long}}

CallCheckElementQuality ==
    /\ call = Idle
    /\ \E structure \in StructurePool :
          /\ call' = [op |-> "check_element_quality", structure |-> structure]
          /\ ret' = [raised |-> FALSE, value |-> check_element_quality(structure)]
    /\ UNCHANGED <<similarity_loaded, hash_order>>

CallCheckCompleteness ==
    /\ call = Idle
    /\ \E structure \in StructurePool :
          /\ call' = [op |-> "check_completeness", structure |-> structure]
          /\ ret' = [raised |-> FALSE, value |-> check_completeness(structure)]
    /\ UNCHANGED <<similarity_loaded, hash_order>>

CallCalculateCompleteness ==
    /\ call = Idle
    /\ \E lines \in SeqsUpTo(LinePool, MaxLines) :
          /\ call' = [op |-> "calculate_completeness", test_case |-> join(lines)]
          /\ ret' = [raised |-> FALSE, value |-> calculate_completeness(join(lines))]
    /\ UNCHANGED <<similarity_loaded, hash_order>>

InitStruct ==
    /\ similarity_loaded = FALSE
    /\ hash_order = "insertion"
    /\ call = Idle
    /\ ret = NoResult

NextStruct ==
    \/ CallExtractStructure
    \/ CallCheckElementQuality
    \/ CallCheckCompleteness
    \/ CallCalculateCompleteness
    \/ Return

SpecStruct == InitStruct /\ [][NextStruct]_vars

-----------------------------------------------------------------------------
(* Properties of StructureMetric.extract_structure                         *)

Elements == <<"title", "precondition", "steps", "expected_result">>

\* The non-empty sections of a structure joined by newlines in the order
\* title, precondition, steps, expected_result
Rejoin(structure) ==
    join(SubseqAt([k \in 1..Len(Elements) |-> structure[Elements[k]]],
                  {k \in 1..Len(Elements) : structure[Elements[k]] # <<>>}))

\* The stripped non-blank lines of a text
LinesOf(text) ==
    LET Stripped(raw) == [i \in 1..Len(raw) |-> strip(raw[i])]
        Kept(s) == SubseqAt(s, {i \in 1..Len(s) : s[i] # <<>>})
    IN  Kept(Stripped(split(text, "\n")))
\* The lines that start the section element, and the lines that start any
StartsOf(lines, element) == {i \in 1..Len(lines) : _detect_section(lines[i]) = element}
AnyStart(lines) == {i \in 1..Len(lines) : _detect_section(lines[i]) # None}
\* The span that begins at line h: up to the next section-start line or the
\* end of the text
SpanFrom(lines, h) ==
    join(Sub(lines, h, Min({j \in AnyStart(lines) : j > h} \cup {Len(lines) + 1}) - 1))

\* C11: structure parsing is idempotent: with S = extract_structure(text) and
\* T the non-empty sections of S joined by newlines in the order title,
\* precondition, steps, expected_result, extract_structure(T) has the content
\* of S in every section.
C11_ReparseIsIdentity ==
    call.op = "extract_structure" =>
        extract_structure(Rejoin(ret.structure)) = ret.structure

\* C11 happens: a text with at least two sections found, one of them of
\* several lines, that is not already the rejoined text.
C11_Witness ==
    /\ call.op = "extract_structure"
    /\ Cardinality({k \in 1..Len(Elements) : ret.structure[Elements[k]] # <<>>}) >= 2
    /\ \E k \in 1..Len(Elements) : Contains(ret.structure[Elements[k]], <<"\n">>)
    /\ Rejoin(ret.structure) # call.test_case

\* C12: when two or more consecutive non-blank lines each match a keyword of
\* the same section, as a single contiguous run with no other section in
\* between, the content of the section is the concatenation of all those
\* lines (and of what follows them up to the next section), not only the
\* last one.
C12_ContiguousRunMerges ==
    call.op = "extract_structure" =>
        \A k \in 1..Len(Elements) :
            LET starts == StartsOf(LinesOf(call.test_case), Elements[k])
            IN  (Cardinality(starts) >= 2 /\ starts = Min(starts)..Max(starts)) =>
                    ret.structure[Elements[k]] =
                        join(Sub(LinesOf(call.test_case), Min(starts), Max(starts) - 1)
                             \o <<SpanFrom(LinesOf(call.test_case), Max(starts))>>)

\* C13: if a section X starts, then a different section Y starts, then a
\* later line matches X again, the content of X is only the span that begins
\* at the last line that starts X, up to the next section-start line or the
\* end of the text.
C13_LastSpanWins ==
    call.op = "extract_structure" =>
        \A k \in 1..Len(Elements) :
            LET lines == LinesOf(call.test_case)
                starts == StartsOf(LinesOf(call.test_case), Elements[k])
                Recurs == \E h \in starts, o \in AnyStart(lines) \ starts :
                              h < o /\ o < Max(starts)
            IN  (starts # {} /\ Recurs) =>
                    ret.structure[Elements[k]] = SpanFrom(lines, Max(starts))

\* C13 happens: the steps start with one line, the expected result starts,
\* and the steps start again with a different line.
C13_Witness ==
    /\ call.op = "extract_structure"
    /\ LET lines == LinesOf(call.test_case)
       IN  \E h \in StartsOf(lines, "steps"), o \in StartsOf(lines, "expected_result") :
              /\ h < o
              /\ o < Max(StartsOf(lines, "steps"))
              /\ lines[h] # lines[Max(StartsOf(lines, "steps"))]
    /\ ret.structure.steps # <<>>

-----------------------------------------------------------------------------
(* Properties of CoverageMetric.extract_requirements                       *)

\* The first position at which the text p occurs in t, 0 when it does not
FirstAt(t, p) ==
    LET At(found) == IF found = {} THEN 0 ELSE Min(found)
    IN  At({i \in 1..(Len(t) - Len(p) + 1) : Sub(t, i, i + Len(p) - 1) = p})

\* C15: extract_requirements returns the requirements in the order of their
\* appearance in the PRD text, whether they come from a list item or from a
\* requirement sentence: of two returned requirements the one whose text
\* occurs earlier in the document has the smaller index.  No two entries are
\* equal and no entry is shorter than 2 characters.
C15_OrderOfAppearance ==
    call.op = "extract_requirements" =>
        /\ \A i, j \in 1..Len(ret.requirements) :
              /\ FirstAt(call.prd_text, ret.requirements[i]) > 0
              /\ FirstAt(call.prd_text, ret.requirements[i])
                    < FirstAt(call.prd_text, ret.requirements[j]) => i < j
              /\ i # j => ret.requirements[i] # ret.requirements[j]
        /\ \A i \in 1..Len(ret.requirements) : Len(ret.requirements[i]) >= 2

\* C16: whenever no list item is found under a recognized section heading,
\* the list items of the entire document are extracted into the requirements,
\* also when a requirement sentence has been found.
C16_FallbackToAllBullets ==
    (/\ call.op = "extract_requirements"
     /\ _extract_bullets(_extract_section_text(call.prd_text, SECTION_TITLES)) = <<>>)
    => \A item \in Range(_extract_bullets(call.prd_text)) :
          Len(_normalize_line(item)) >= 2 =>
              _normalize_line(item) \in Range(ret.requirements)

-----------------------------------------------------------------------------
(* Properties of CoverageMetric._split_tokens                              *)

\* The length-2 and length-3 sliding-window substrings of a run in the order
\* the loops meet them: the windows of length 2 from left to right, then
\* those of length 3
Encountered(span) ==
    [n \in 1..(2 * Len(span) - 3) |->
        IF n <= Len(span) - 1 THEN Sub(span, n, n + 1)
        ELSE Sub(span, n - Len(span) + 1, n - Len(span) + 3)]
\* The first `limit` different substrings met
FirstEncountered(span, limit) ==
    LET New(e) == {n \in 1..Len(e) : \A m \in 1..(n - 1) : e[m] # e[n]}
        Taken(e, new) == {e[n] : n \in {k \in new : Cardinality({m \in new : m < k}) < limit}}
    IN  Taken(Encountered(span), New(Encountered(span)))

\* C20: for an ideographic run longer than 3 characters the tokenizer emits
\* the first 15 length-2 and length-3 sliding-window substrings in the order
\* they are encountered (all of them if there are fewer), so tokenizing the
\* same text yields the same token set whatever order the process iterates
\* its sets in.
C20_FirstFifteenGrams ==
    (/\ call.op = "_split_tokens"
     /\ Len(call.text) > 3
     /\ \A i \in 1..Len(call.text) : IsCJK(call.text[i]))
    => /\ ret.tokens = FirstEncountered(call.text, 15)
       /\ \A order \in HashOrders : ret.tokens = _split_tokens(call.text, order)

-----------------------------------------------------------------------------
(* The calls of the consumers of the embedding provider: SimilarityMetric  *)
(* and a UniquenessMetric that was given the SimilarityModel               *)

CallCalculateCaseSimilarity ==
    /\ call = Idle
    /\ \E generated_case \in UniqCasePool, reference_case \in UniqCasePool,
          provider \in ProvidersOf(similarity_loaded) :
          /\ call' = [op |-> "calculate_case_similarity", generated_case |-> generated_case,
                      reference_case |-> reference_case, provider |-> provider]
          /\ ret' = [raised |-> FALSE,
                     value |-> calculate_case_similarity(generated_case, reference_case,
                                                         provider)]
    /\ UNCHANGED <<similarity_loaded, hash_order>>

CallCalculateBatchSimilarity ==
    /\ call = Idle
    /\ \E generated_cases \in SeqsUpTo(UniqCasePool, MaxSimCases),
          reference_cases \in SeqsUpTo(UniqCasePool, 1),
          provider \in ProvidersOf(similarity_loaded) :
          /\ call' = [op |-> "calculate_batch_similarity",
                      generated_cases |-> generated_cases,
                      reference_cases |-> reference_cases, provider |-> provider]
          /\ ret' = [raised |-> FALSE,
                     value |-> calculate_batch_similarity(generated_cases, reference_cases,
                                                          provider)]
    /\ UNCHANGED <<similarity_loaded, hash_order>>

CallDetectDuplicatesInGenerated ==
    /\ call = Idle
    /\ \E generated_cases \in SeqsUpTo(UniqCasePool, MaxSimCases),
          provider \in ProvidersOf(similarity_loaded) :
          /\ call' = [op |-> "detect_duplicates_in_generated",
                      generated_cases |-> generated_cases, provider |-> provider]
          /\ ret' = [raised |-> FALSE,
                     value |-> detect_duplicates_in_generated(generated_cases, Rat(85, 100),
                                                              provider)]
    /\ UNCHANGED <<similarity_loaded, hash_order>>

CallClusterGeneratedCases ==
    /\ call = Idle
    /\ \E generated_cases \in SeqsUpTo(UniqCasePool, MaxSimCases),
          provider \in ProvidersOf(similarity_loaded) :
          /\ call' = [op |-> "cluster_generated_cases",
                      generated_cases |-> generated_cases, provider |-> provider]
          /\ ret' = [raised |-> FALSE,
                     value |-> cluster_generated_cases(generated_cases, Rat(7, 10), provider)]
    /\ UNCHANGED <<similarity_loaded, hash_order>>

CallDetectNearDuplicates ==
    /\ call = Idle
    /\ \E test_cases \in SeqsUpTo(UniqCasePool, MaxSimCases),
          provider \in ProvidersOf(similarity_loaded) :
          /\ call' = [op |-> "detect_near_duplicates", test_cases |-> test_cases,
                      provider |-> provider]
          /\ ret' = [raised |-> FALSE,
                     value |-> detect_near_duplicates(test_cases, Rat(9, 10),
                                                      similarity_loaded, provider)]
    /\ UNCHANGED <<similarity_loaded, hash_order>>

\* The pairs of different texts of the pool
TextPairs == {pair \in SUBSET UniqCasePool : Cardinality(pair) = 2}

\* Providers whose embeddings put any set of pairs below the clustering
\* threshold and the other pairs above it.  With at most four texts every
\* such similarity matrix is the Gram matrix of unit vectors.
ClusterProviders ==
    {NoProvider} \cup
    {[up |-> TRUE, sim |-> Rat(75, 100), apart |-> pairs, low |-> Rat(65, 100)] :
        pairs \in SUBSET TextPairs}

CallSemanticClustering ==
    /\ call = Idle
    /\ \E texts \in SeqsUpTo(UniqCasePool, MaxSimCases),
          provider \in ClusterProviders :
          /\ call' = [op |-> "semantic_clustering", texts |-> texts,
                      threshold |-> Rat(7, 10), provider |-> provider]
          /\ ret' = [raised |-> FALSE,
                     value |-> semantic_clustering(texts, Rat(7, 10), provider)]
    /\ UNCHANGED <<similarity_loaded, hash_order>>

InitSim ==
    /\ similarity_loaded = TRUE
    /\ hash_order = "insertion"
    /\ call = Idle
    /\ ret = NoResult

NextSim ==
    \/ CallCalculateCaseSimilarity
    \/ CallCalculateBatchSimilarity
    \/ CallDetectDuplicatesInGenerated
    \/ CallClusterGeneratedCases
    \/ CallDetectNearDuplicates
    \/ CallUniquenessEvaluate
    \/ CallSemanticClustering
    \/ Return

SpecSim == InitSim /\ [][NextSim]_vars

-----------------------------------------------------------------------------
(* Properties of the consumers of the embedding provider                   *)

\* The keys of the result of UniquenessMetric.evaluate
UniquenessKeys ==
    {"total_cases", "exact_duplicates", "exact_duplicate_count", "near_duplicates",
     "near_duplicate_count", "total_duplicate_pairs", "deduplication_rate",
     "diversity_score", "scenario_diversity", "quality_level"}

\* A call during which the provider's encode raises
ProviderFails == call # Idle /\ ~call.provider.up

\* What the consumers other than cluster_generated_cases return when the
\* provider fails: detect_near_duplicates and detect_duplicates_in_generated
\* an empty list, UniquenessMetric.evaluate a full result without near
\* duplicates, calculate_batch_similarity an empty map,
\* calculate_case_similarity 0.0
DegradedResult ==
    /\ ~ret.raised
    /\ call.op = "detect_near_duplicates" => ret.value = {}
    /\ call.op = "uniqueness_evaluate" =>
          /\ UniquenessKeys \subseteq DOMAIN ret
          /\ ret.total_cases = Len(call.test_cases)
          /\ ret.near_duplicates = {}
          /\ ret.exact_duplicates = detect_exact_duplicates(call.test_cases)
    /\ call.op = "calculate_batch_similarity" => ret.value = EmptyDict
    /\ call.op = "detect_duplicates_in_generated" => ret.value = {}
    /\ call.op = "calculate_case_similarity" => ret.value = RZero

\* C19 as the code has it: when the provider call fails no consumer raises;
\* detect_near_duplicates and detect_duplicates_in_generated return an empty
\* list, UniquenessMetric.evaluate still returns a full result,
\* calculate_batch_similarity returns an empty map, calculate_case_similarity
\* returns 0.0, and cluster_generated_cases returns the map of an empty
\* clustering: total_clusters 0, no cluster_info, avg_cluster_size 0.
C19_ConsumersDegrade ==
    ProviderFails =>
        /\ DegradedResult
        /\ call.op = "cluster_generated_cases" =>
              ret.value = [total_clusters |-> 0, cluster_info |-> <<>>,
                           avg_cluster_size |-> RZero]

\* C19 happens: cluster_generated_cases of two cases or more during a
\* provider failure.
C19_Witness ==
    /\ ProviderFails
    /\ call.op = "cluster_generated_cases"
    /\ Len(call.generated_cases) >= 2
    /\ ret.value.total_clusters = 0

\* C19 as stated: the same, with cluster_generated_cases returning an empty
\* map when the provider call fails.
C19_ClusteringReturnsEmptyMap ==
    ProviderFails =>
        /\ DegradedResult
        /\ call.op = "cluster_generated_cases" => ret.value = EmptyDict

-----------------------------------------------------------------------------
(* Properties of the quality levels                                        *)

\* C21: the uniqueness quality level is the bucket the Quality Scorer's
\* thresholds (0.85, 0.7, 0.5) give to the mean of diversity_score and
\* deduplication_rate.
C21_SameThresholdsAsQuality ==
    (call # Idle /\ call.op = "uniqueness_get_quality_level") =>
        ret.value = quality_get_quality_level(
                        RDiv(RAdd(call.diversity_score, call.deduplication_rate),
                             RInt(2)))

-----------------------------------------------------------------------------
(* Properties of the section rubrics                                       *)

\* The lines of the content that begin with a dash.
DashLines(content) ==
    Cardinality({p \in 1..Len(content) : LineStart(content, p) /\ content[p] = "-"})

\* C22: in the Structure Scorer a steps section of at least 50 characters with
\* at least 2 sub-items (digit and period, the step label with a number, or a
\* line with a leading dash) has steps quality 1.
C22_DashBulletsCountAsSubItems ==
    (call # Idle /\ call.op = "check_element_quality") =>
        ((/\ Len(strip(call.structure.steps)) >= 50
          /\ structure_step_count(call.structure.steps)
                + DashLines(call.structure.steps) >= 2)
            => ret.value.steps = ROne)

\* C23: two Structures with equal per-section quality values from
\* check_element_quality have equal completeness scores from
\* check_completeness.
C23_CompletenessFollowsSectionRubric ==
    (call # Idle /\ call.op = "check_completeness") =>
        \A other \in StructurePool :
            check_element_quality(other) = check_element_quality(call.structure)
                => check_completeness(other) = ret.value

-----------------------------------------------------------------------------
(* Properties of semantic_clustering                                       *)

\* The indices of the texts, counted from 0 as in the clusters
Indices(texts) == 0..(Len(texts) - 1)

\* The indices in the clusters before the k-th
TakenBefore(clusters, k) == UNION {Range(clusters[c]) : c \in 1..(k - 1)}

\* The similarity of the texts with indices i and j reaches the threshold
Similar(c, i, j) ==
    RLe(c.threshold, Cosine(c.provider, c.texts[i + 1], c.texts[j + 1]))

ClusteringDone ==
    call # Idle /\ call.op = "semantic_clustering" /\ call.provider.up

\* C24: the seed of each cluster is the first case no earlier cluster took,
\* and the cluster holds, besides its seed, exactly the later cases not yet
\* taken whose similarity to the seed reaches the threshold; a case similar
\* to another member only is not in the cluster.
C24_ClustersAreSeedNeighbourhoods ==
    ClusteringDone =>
        \A k \in 1..Len(ret.value) :
            LET seed == Head(ret.value[k])
                free == Indices(call.texts) \ TakenBefore(ret.value, k)
            IN  /\ seed \in free
                /\ \A i \in free : seed <= i
                /\ Range(ret.value[k]) =
                      {seed} \cup {j \in free : j > seed /\ Similar(call, seed, j)}

\* A case that is similar to a member of the first cluster, but not to its
\* seed, has a cluster of its own
C24_Witness ==
    /\ ClusteringDone
    /\ ret.value = <<<<0, 1>>, <<2>>>>
    /\ Similar(call, 1, 2)
    /\ ~Similar(call, 0, 2)

\* C25: when the provider does not fail, the clusters are a partition of the
\* indices 0..n-1: every index is in exactly one cluster and once, no cluster
\* is empty, the first element of a cluster is its smallest, and the first
\* elements increase along the list.
C25_ClustersPartitionIndices ==
    ClusteringDone =>
        /\ \A i \in Indices(call.texts) :
              Cardinality({<<k, p>> \in (1..Len(ret.value)) \X (1..Len(call.texts)) :
                              p <= Len(ret.value[k]) /\ ret.value[k][p] = i}) = 1
        /\ \A k \in 1..Len(ret.value) :
              /\ ret.value[k] # <<>>
              /\ Range(ret.value[k]) \subseteq Indices(call.texts)
              /\ \A i \in Range(ret.value[k]) : Head(ret.value[k]) <= i
              /\ k > 1 => Head(ret.value[k - 1]) < Head(ret.value[k])

\* Three cases in two clusters, the first cluster around the second
C25_Witness ==
    /\ ClusteringDone
    /\ ret.value = <<<<0, 2>>, <<1>>>>

-----------------------------------------------------------------------------
(* Properties of CoverageMetric.calculate_requirement_coverage             *)

\* How often the text x occurs in the list
Occurrences(list, x) == Cardinality({i \in 1..Len(list) : list[i] = x})

\* C26: calculate_requirement_coverage places each requirement in exactly one
\* of covered_requirements and uncovered_requirements, so covered_count +
\* uncovered_count = total_requirements, and coverage_rate = covered_count /
\* total_requirements when there is a requirement.
C26_CoveredAndUncoveredPartition ==
    call.op = "calculate_requirement_coverage" =>
        /\ \A r \in Range(call.requirements) :
              /\ Occurrences(ret.covered_requirements, r)
                    + Occurrences(ret.uncovered_requirements, r)
                       = Occurrences(call.requirements, r)
              /\ \/ Occurrences(ret.covered_requirements, r) = 0
                 \/ Occurrences(ret.uncovered_requirements, r) = 0
        /\ Range(ret.covered_requirements) \cup Range(ret.uncovered_requirements)
              \subseteq Range(call.requirements)
        /\ ret.covered_count = Len(ret.covered_requirements)
        /\ ret.uncovered_count = Len(ret.uncovered_requirements)
        /\ ret.total_requirements = Len(call.requirements)
        /\ ret.covered_count + ret.uncovered_count = ret.total_requirements
        /\ ret.total_requirements > 0 =>
              ret.coverage_rate = Rat(ret.covered_count, ret.total_requirements)

\* C26 happens: a call with two requirements, one with keywords and covered,
\* one without keywords.
C26_Witness ==
    /\ call.op = "calculate_requirement_coverage"
    /\ ret.covered_count = 1
    /\ ret.uncovered_count = 1
    /\ extract_keywords_from_requirement(ret.uncovered_requirements[1], hash_order) = {}
    /\ ret.coverage_rate = Rat(1, 2)

\* |R & K| / min(|R|, |K|) >= th for two keyword sets that share a keyword
OverlapReaches(R, K, th) ==
    /\ R \cap K # {}
    /\ AtLeast(Cardinality(R \cap K), Min({Cardinality(R), Cardinality(K)}), th)

\* The requirements of a call for which some case has
\* |R & K| / min(|R|, |K|) >= th
OverlapCovered(requirements, test_cases, th, order) ==
    {i \in 1..Len(requirements) :
        \E j \in 1..Len(test_cases) :
            OverlapReaches(extract_keywords_from_requirement(requirements[i], order),
                           extract_keywords_from_test_case(test_cases[j], order), th)}

\* C27: for non-empty keyword sets R and K that share a keyword, Jaccard(R,K)
\* is never greater than |R & K|/|R| or |R & K|/|K|, so the score
\* max(Jaccard, |R & K|/|R|, |R & K|/|K|) equals |R & K| / min(|R|,|K|), and
\* the requirements reported covered are those that |R & K| / min(|R|,|K|)
\* alone decides.
C27_ScoreIsOverlapCoefficient ==
    call.op = "calculate_requirement_coverage" =>
        /\ \A i \in 1..Len(call.requirements), j \in 1..Len(call.test_cases) :
              LET R == extract_keywords_from_requirement(call.requirements[i], hash_order)
                  K == extract_keywords_from_test_case(call.test_cases[j], hash_order)
                  c == Cardinality(R \cap K)
              IN  c > 0 =>
                    /\ RLe(Rat(c, Cardinality(R \cup K)), Rat(c, Cardinality(R)))
                    /\ RLe(Rat(c, Cardinality(R \cup K)), Rat(c, Cardinality(K)))
                    /\ MatchScore(R, K)
                          = Rat(c, Min({Cardinality(R), Cardinality(K)}))
        /\ ret.covered_requirements =
              SubseqAt(call.requirements,
                       OverlapCovered(call.requirements, call.test_cases,
                                      call.similarity_threshold, hash_order))

\* C27 happens: a requirement with more keywords than the case that covers
\* it, where the Jaccard similarity and the ratio to the requirement's
\* keywords are both below the threshold.
C27_Witness ==
    /\ call.op = "calculate_requirement_coverage"
    /\ Len(call.requirements) = 1
    /\ Len(call.test_cases) = 1
    /\ ret.covered_count = 1
    /\ LET R == extract_keywords_from_requirement(call.requirements[1], hash_order)
           K == extract_keywords_from_test_case(call.test_cases[1], hash_order)
       IN  /\ Cardinality(K) < Cardinality(R)
           /\ ~AtLeast(Cardinality(R \cap K), Cardinality(R \cup K),
                       call.similarity_threshold)
           /\ ~AtLeast(Cardinality(R \cap K), Cardinality(R),
                       call.similarity_threshold)

\* The requirement has no keyword: each of its tokens has at most one
\* character or is a requirement-side stop word
WithoutKeywords(requirement, order) ==
    \A t \in _split_tokens(requirement, order) :
        Len(t) <= 1 \/ TokenKey(t) \in STOPWORDS_REQ

\* C28: a requirement whose keyword set is empty is reported uncovered for
\* every batch of cases, and counts in the denominator of coverage_rate.
C28_RequirementWithoutKeywordsIsUncovered ==
    call.op = "calculate_requirement_coverage" =>
        LET n == Len(call.requirements)
            unkeyed == {i \in 1..n : WithoutKeywords(call.requirements[i], hash_order)}
        IN  /\ \A i \in unkeyed :
                  /\ call.requirements[i] \in Range(ret.uncovered_requirements)
                  /\ call.requirements[i] \notin Range(ret.covered_requirements)
            /\ ret.uncovered_count >= Cardinality(unkeyed)
            /\ n > 0 => /\ ret.total_requirements = n
                        /\ ret.coverage_rate = Rat(ret.covered_count, n)
                        /\ RLe(ret.coverage_rate, Rat(n - Cardinality(unkeyed), n))

\* C28 happens: a requirement without keywords next to a covered one, against
\* a batch with a case that has keywords; the rate is 1/2, not 1.
C28_Witness ==
    /\ call.op = "calculate_requirement_coverage"
    /\ Len(call.requirements) = 2
    /\ \E i \in 1..2 : WithoutKeywords(call.requirements[i], hash_order)
    /\ \E j \in 1..Len(call.test_cases) :
          extract_keywords_from_test_case(call.test_cases[j], hash_order) # {}
    /\ ret.covered_count = 1
    /\ ret.coverage_rate = Rat(1, 2)

-----------------------------------------------------------------------------
(* Properties of the keyword extraction                                    *)

\* C29: no token of the keyword set of a test case is a case-side stop word
\* and no token of the keyword set of a requirement is a requirement-side
\* stop word, also when the token is the result of synonym folding.
C29_NoStopWordInKeywordSet ==
    /\ call.op = "extract_keywords_from_test_case" =>
          ret.tokens \cap STOPWORDS_CASE = {}
    /\ call.op = "extract_keywords_from_requirement" =>
          ret.tokens \cap STOPWORDS_REQ = {}

-----------------------------------------------------------------------------
(* Properties of the lines outside the sections                            *)

\* C30: the lines before the first section-start line are in no section: the
\* content of a section is a block of lines that begins at a section-start
\* line, and the structure is that of the text without these lines.  A text
\* without a section-start line has four empty sections and the structure
\* completeness score 0.
C30_LeadingLinesInNoSection ==
    /\ call.op = "extract_structure" =>
          LET lines == LinesOf(call.test_case)
              starts == AnyStart(LinesOf(call.test_case))
          IN  /\ \A k \in 1..Len(Elements) :
                    \/ ret.structure[Elements[k]] = <<>>
                    \/ \E h \in starts, e \in 1..Len(lines) :
                          h <= e /\ ret.structure[Elements[k]] = join(Sub(lines, h, e))
              /\ starts # {} =>
                    ret.structure =
                        extract_structure(join(Sub(lines, Min(starts), Len(lines))))
    /\ (/\ call.op = "calculate_completeness"
        /\ AnyStart(LinesOf(call.test_case)) = {})
       => ret.value = RZero

\* C30 happens: a text that begins with a line of no section, followed by a
\* section that collects a later line of no section.
C30_Witness ==
    /\ call.op = "extract_structure"
    /\ LET lines == LinesOf(call.test_case)
       IN  /\ Len(lines) >= 3
           /\ _detect_section(lines[1]) = None
           /\ _detect_section(lines[2]) # None
           /\ _detect_section(lines[3]) = None
    /\ \E k \in 1..Len(Elements) : Contains(ret.structure[Elements[k]], <<"\n">>)

====
